---- MODULE Spec2Model ----
(***************************************************************************)
(* ESP32 3.5" TFT weather station: layout engine, change detection,        *)
(* incremental rendering and the two-cadence control loop.                 *)
(*                                                                         *)
(* Number representation.  The sketch keeps temperatures, probabilities    *)
(* and UV values in C floats; the model keeps them as fixed-point          *)
(* integers: temperatures and wind speed in hundredths of a unit, UV in    *)
(* hundredths, precipitation probability in thousandths.  The inputs used  *)
(* below never differ by exactly a tolerance, where float rounding could   *)
(* decide the comparison either way.                                       *)
(***************************************************************************)
EXTENDS Integers, Sequences, FiniteSets, TLC

VARIABLES
    pc,                 \* position of the program: setup steps, loop, halt
    panel,              \* the TFT driver's <<width, height>> after setRotation(1)
    screenWidth,        \* uint16_t screenWidth
    screenHeight,       \* uint16_t screenHeight
    dims,               \* struct ScreenDims
    layout,             \* struct LayoutBounds
    layoutOk,           \* result of verifyNoOverlap() in setup
    mounted,            \* result of LittleFS.begin(false) in setup
    booted,             \* boolean booted
    firstRun,           \* boolean firstRun
    forecast,           \* OW_forecast* forecast (NULL or a snapshot)
    uvData,             \* struct UVData
    prevVals,           \* struct PreviousValues
    clock,              \* millis() as of the current loop iteration
    lastDownloadUpdate, \* long lastDownloadUpdate
    lastUVUpdate,       \* long lastUVUpdate
    lastMinute,         \* int lastMinute (NTP_Time.h), read and set by loop
    ticks,              \* loop delays elapsed since boot (bounds the run)
    cycle,              \* record of what the latest loop iteration did
    uvLine,             \* the text the display shows on the UV line
    showUpdateIcon,     \* boolean showUpdateIcon
    lastIconRotation,   \* unsigned long lastIconRotation
    probe,              \* arguments of a function evaluated on its own
    result              \* what that function returned

vars == <<pc, panel, screenWidth, screenHeight, dims, layout, layoutOk,
          mounted, booted,
          firstRun, forecast, uvData, prevVals, clock, lastDownloadUpdate,
          lastUVUpdate, lastMinute, ticks, cycle, uvLine, showUpdateIcon,
          lastIconRotation, probe, result>>

----------------------------------------------------------------------------
(* Machine arithmetic *)

U16(x) == x % 65536

Abs(x) == IF x > 0 THEN x ELSE -x

\* unsigned long: a 32-bit value kept as two 16-bit limbs <<high, low>>
\* (the model checker's integers are 32-bit signed)
UL(n) == <<(n \div 65536) % 65536, n % 65536>>

\* a + n modulo 2^32, for 0 <= n < 2^30
AddUL(a, n) ==
    LET low == a[2] + (n % 65536)
    IN  <<(a[1] + n \div 65536 + low \div 65536) % 65536, low % 65536>>

\* a - b modulo 2^32
SubUL(a, b) ==
    LET low == a[2] - b[2]
        borrow == IF low < 0 THEN 1 ELSE 0
    IN  <<(a[1] - b[1] - borrow) % 65536, low % 65536>>

\* a + b modulo 2^32
PlusUL(a, b) ==
    LET low == a[2] + b[2]
    IN  <<(a[1] + b[1] + low \div 65536) % 65536, low % 65536>>

\* the value of the 32-bit pattern a read as a signed long; UL(asLong(a))
\* converts it back to unsigned long
asLong(a) ==
    IF a[1] >= 32768 THEN (a[1] - 65536) * 65536 + a[2]
    ELSE a[1] * 65536 + a[2]

\* a > n, for 0 <= n < 2^31
GreaterUL(a, n) ==
    \/ a[1] > n \div 65536
    \/ a[1] = n \div 65536 /\ a[2] > n % 65536

----------------------------------------------------------------------------
(* Display constants *)

SMALL_FONT_HEIGHT == 18
LARGE_FONT_HEIGHT == 40
TEXT_LINE_HEIGHT == 20
ICON_SIZE_LARGE == 100
ICON_SIZE_SMALL == 64
ICON_SIZE_TINY == 48
UV_DISPLAY_HEIGHT == 30
UV_MARGIN_BOTTOM == 8

\* tft.width() and tft.height() of the 3.5" panel after setRotation(1)
TFT_WIDTH == 480
TFT_HEIGHT == 320

----------------------------------------------------------------------------
(* Geometry: initScreenDimensions, initLayoutBounds, verifyNoOverlap *)

initScreenDimensions(W, H) ==
    LET h13_20 == U16((H * 13) \div 20)
    IN  [ halfW    |-> W \div 2,
          halfH    |-> H \div 2,
          w1_50    |-> U16(W \div 50),
          w3_50    |-> U16((W * 3) \div 50),
          w21_50   |-> U16((W * 21) \div 50),
          w24_50   |-> U16((W * 24) \div 50),
          w26_50   |-> U16((W * 26) \div 50),
          w47_100  |-> U16((W * 47) \div 100),
          w51_100  |-> U16((W * 51) \div 100),
          h1_50    |-> U16(H \div 50),
          h2_25    |-> U16((H * 2) \div 25),
          h3_50    |-> U16((H * 3) \div 50),
          h9_50    |-> U16((H * 9) \div 50),
          h1_5     |-> U16(H \div 5),
          h23_100  |-> U16((H * 23) \div 100),
          h13_20   |-> h13_20,
          statusTextY |-> U16((H * 2) \div 3),
          uvDisplayY  |-> U16(h13_20 - UV_DISPLAY_HEIGHT - UV_MARGIN_BOTTOM) ]

initLayoutBounds(d, W, H) ==
    LET forecastH == U16(d.h9_50 + (H * 3) \div 20 + 26)
        popGraphY == U16(forecastH + 6)
    IN  [ timeX |-> d.w1_50,
          timeY |-> d.h1_50,
          timeW |-> U16(d.halfW - d.w1_50),
          timeH |-> U16(d.h2_25 + LARGE_FONT_HEIGHT - d.h1_50),
          weatherX |-> 0,
          weatherY |-> d.h1_5,
          weatherW |-> d.halfW,
          weatherH |-> U16(d.uvDisplayY - d.h1_5),
          uvX |-> 0,
          uvY |-> d.uvDisplayY,
          uvW |-> d.halfW,
          uvH |-> UV_DISPLAY_HEIGHT,
          astronomyX |-> ICON_SIZE_LARGE,
          astronomyY |-> d.h1_5,
          astronomyW |-> U16(d.halfW - ICON_SIZE_LARGE),
          astronomyH |-> U16(d.h13_20 - d.h1_5),
          forecastX |-> d.w26_50,
          forecastY |-> 0,
          forecastW |-> d.w24_50,
          forecastH |-> forecastH,
          popGraphX |-> d.w51_100,
          popGraphY |-> popGraphY,
          popGraphW |-> d.w24_50,
          popGraphH |-> U16(d.h13_20 - popGraphY - 6),
          tempGraphX |-> 0,
          tempGraphY |-> d.h13_20,
          tempGraphW |-> W,
          tempGraphH |-> U16(H - d.h13_20) ]

\* what clearArea fills when it returns without filling
NoRect == [x |-> 0, y |-> 0, w |-> 0, h |-> 0]

\* a clearArea that would pass the requested rectangle on unclipped
clearArea_unclipped(x, y, w, h, sw, sh) == [x |-> x, y |-> y, w |-> w, h |-> h]

\* clearArea, lines 228-233: the rectangle handed to tft.fillRect on a
\* screen of sw by sh pixels (x + w and y + h are evaluated in int)
clearArea(x, y, w, h, sw, sh) ==
    IF x >= sw \/ y >= sh THEN NoRect
    ELSE [x |-> x,
          y |-> y,
          w |-> IF x + w > sw THEN U16(sw - x) ELSE w,
          h |-> IF y + h > sh THEN U16(sh - y) ELSE h]

\* drawForecast, lines 795-797
separatorY(H) == U16(H \div 20 + (H * 3) \div 20 + 26)

\* drawForecast, line 799: the block it clears before drawing the columns
forecastCleared(l, W, H) ==
    clearArea(l.forecastX, l.forecastY, l.forecastW, separatorY(H), W, H)

\* drawForecast, lines 830-832, and drawHourlyPopGraph, line 991: the
\* rectangle the precipitation graph is cleared and drawn in
popGraphDrawn(d, W, H) ==
    LET graphY == U16(separatorY(H) + 6)
        graphH == U16(d.h13_20 - graphY - 6)
    IN  clearArea(d.w51_100, graphY, d.w24_50, graphH, W, H)

\* The sums are evaluated in int, so they do not wrap.
verifyNoOverlap(l, d) ==
    LET timeWeatherOk == l.timeY + l.timeH <= l.weatherY
        weatherUVOk   == l.weatherY + l.weatherH <= l.uvY
        uvTempGraphOk == l.uvY + l.uvH <= l.tempGraphY
        forecastPopOk == l.forecastY + l.forecastH <= l.popGraphY
        popTempOk     == l.popGraphY + l.popGraphH <= l.tempGraphY
        leftRightOk   == /\ l.weatherX + l.weatherW <= d.halfW
                         /\ l.forecastX >= d.halfW
    IN  /\ timeWeatherOk /\ weatherUVOk /\ uvTempGraphOk
        /\ forecastPopOk /\ popTempOk /\ leftRightOk

----------------------------------------------------------------------------
(* Settings and tolerances *)

\* All_Settings.h
UPDATE_INTERVAL_SECS == 900
UV_UPDATE_INTERVAL_SECS == 1800

\* delay(100) at the end of loop()
LOOP_DELAY_MS == 100

\* OpenWeather library: 5 days of 3-hourly samples
MAX_DAYS == 5

\* 0.5 degree in hundredths (hasForecastChanged, hasHourlyTempChanged,
\* hasAstronomyChanged)
TEMP_TOLERANCE == 50

\* 0.01 in thousandths (hasPopChanged)
POP_TOLERANCE == 10

\* 0.1 in hundredths (hasUVChanged)
UV_TOLERANCE == 10

\* isForecastDataValid: -100 < temp[0] < 100, in hundredths
TEMP_LIMIT == 10000

\* the float sentinels -9999 / 9999 in hundredths
SENTINEL == 999900

\* forecast == nullptr
NULL == [null |-> TRUE]

\* a JSON string that is absent (a null const char*)
NoString == <<>>

----------------------------------------------------------------------------
(* Text: character sequences as the sketch formats and compares them *)

Digit(n) ==
    CASE n = 0 -> "0" [] n = 1 -> "1" [] n = 2 -> "2" [] n = 3 -> "3"
      [] n = 4 -> "4" [] n = 5 -> "5" [] n = 6 -> "6" [] n = 7 -> "7"
      [] n = 8 -> "8" [] n = 9 -> "9"

\* c - '0' for a digit character
DigitVal(c) ==
    CASE c = "0" -> 0 [] c = "1" -> 1 [] c = "2" -> 2 [] c = "3" -> 3
      [] c = "4" -> 4 [] c = "5" -> 5 [] c = "6" -> 6 [] c = "7" -> 7
      [] c = "8" -> 8 [] c = "9" -> 9

\* printf("%02d", n) for 0 <= n <= 999
Fmt02(n) ==
    IF n < 100 THEN <<Digit(n \div 10), Digit(n % 10)>>
    ELSE <<Digit(n \div 100), Digit((n \div 10) % 10), Digit(n % 10)>>

\* snprintf(buf, size, ...): at most size - 1 characters are kept
Truncate(s, size) == IF Len(s) > size - 1 THEN SubSeq(s, 1, size - 1) ELSE s

\* C division truncates toward zero
CDiv(a, b) == IF a >= 0 THEN a \div b ELSE -((-a) \div b)

\* ISO8601 UTC text "YYYY-MM-DDTHH:MM:SSZ" of a provider answer
IsoTime(hh, mm) ==
    <<"2", "0", "2", "4", "-", "0", "6", "-", "0", "1", "T">>
        \o Fmt02(hh) \o <<":">> \o Fmt02(mm) \o <<":", "0", "0", "Z">>

\* updateUVData, lines 340-341: the two while loops that bring localMin
\* into 0..1439
RECURSIVE wrapDay(_)
wrapDay(localMin) ==
    IF localMin < 0 THEN wrapDay(localMin + 1440)
    ELSE IF localMin >= 1440 THEN wrapDay(localMin - 1440)
    ELSE localMin

\* a label that would show the provider's UTC time as it came
maxTimeLabel_utc(timeStr, offsetSec) ==
    IF timeStr # NoString /\ Len(timeStr) >= 16
    THEN Truncate(SubSeq(timeStr, 12, 16), 6)
    ELSE <<>>

\* updateUVData: the localized HH:MM label of uv_max_time; timeStr is the
\* JSON string (NoString when the key is absent), offsetSec the zone offset
maxTimeLabel(timeStr, offsetSec) ==
    IF timeStr # NoString /\ Len(timeStr) >= 16
    THEN LET uh == DigitVal(timeStr[12]) * 10 + DigitVal(timeStr[13])
             um == DigitVal(timeStr[15]) * 10 + DigitVal(timeStr[16])
             localMin == wrapDay(uh * 60 + um + CDiv(offsetSec, 60))
             lh == localMin \div 60
             lm == localMin % 60
         IN  Truncate(Fmt02(lh) \o <<":">> \o Fmt02(lm), 6)
    ELSE <<>>

----------------------------------------------------------------------------
(* Change detection *)

\* a test that would only look at the pointer
isForecastDataValid_anyTemperature(f) == f # NULL

isForecastDataValid(f) ==
    /\ f # NULL
    /\ f.temp[0] > -TEMP_LIMIT
    /\ f.temp[0] < TEMP_LIMIT

\* a search that would return the last sample of another day
getNextDayIndex_last(f) ==
    IF f = NULL THEN 0
    ELSE LET differ == {index \in 0..8 : f.dt_txt[index].day # f.dt_txt[0].day}
         IN  IF differ = {} THEN 0
             ELSE CHOOSE index \in differ : \A other \in differ : index >= other

\* dt_txt[index].day stands for dt_txt[index].substring(8, 10)
getNextDayIndex(f) ==
    IF f = NULL THEN 0
    ELSE LET differ == {index \in 0..8 : f.dt_txt[index].day # f.dt_txt[0].day}
         IN  IF differ = {} THEN 0
             ELSE CHOOSE index \in differ : \A other \in differ : index <= other

SetMax(S) == CHOOSE x \in S : \A y \in S : y <= x

SetMin(S) == CHOOSE x \in S : \A y \in S : x <= y

\* a scan that would stop at the day's first sample
dayMinMax_firstSample(f, idx) == <<f.temp_min[idx], f.temp_max[idx]>>

\* the scan of one forecast day's 8 samples starting at idx: <<tmin, tmax>>
dayMinMax(f, idx) ==
    LET js == {j \in 0..7 : idx + j < MAX_DAYS * 8}
    IN  << SetMin({SENTINEL} \cup {f.temp_min[idx + j] : j \in js}),
           SetMax({-SENTINEL} \cup {f.temp_max[idx + j] : j \in js}) >>

hasWeatherChanged(pv, f) ==
    IF ~isForecastDataValid(f) THEN FALSE
    ELSE pv.temp # f.temp[0] \/ pv.weatherId # f.id[0]

hasForecastChanged(pv, f) ==
    IF ~isForecastDataValid(f) THEN FALSE
    ELSE LET dayIndex == getNextDayIndex(f)
         IN  \E i \in 0..3 :
               LET idx == dayIndex + i * 8
                   mm == dayMinMax(f, idx)
               IN  /\ idx < MAX_DAYS * 8
                   /\ \/ Abs(pv.forecastTemps[i][1] - mm[1]) > TEMP_TOLERANCE
                      \/ Abs(pv.forecastTemps[i][2] - mm[2]) > TEMP_TOLERANCE
                      \/ pv.forecastIds[i] # f.id[idx + 4]

hasAstronomyChanged(pv, f) ==
    IF ~isForecastDataValid(f) THEN FALSE
    ELSE \/ Abs(pv.windSpeed - f.wind_speed) > TEMP_TOLERANCE
         \/ pv.windDeg # f.wind_deg
         \/ pv.clouds # f.clouds_all
         \/ pv.humidity # f.humidity
         \/ pv.sunrise # f.sunrise
         \/ pv.sunset # f.sunset
         \/ pv.moonPhaseIcon # f.moonIcon

hasPopChanged(pv, f) ==
    IF ~isForecastDataValid(f) THEN FALSE
    ELSE \E i \in 0..7 : Abs(pv.pop[i] - f.pop[i]) > POP_TOLERANCE

\* a test that would only notice a fall of the temperature
hasHourlyTempChanged_oneSided(pv, f) ==
    IF ~isForecastDataValid(f) THEN FALSE
    ELSE \E i \in 0..8 : pv.hourlyTemps[i] - f.temp[i] > TEMP_TOLERANCE

hasHourlyTempChanged(pv, f) ==
    IF ~isForecastDataValid(f) THEN FALSE
    ELSE \E i \in 0..8 : Abs(pv.hourlyTemps[i] - f.temp[i]) > TEMP_TOLERANCE

\* a test that would compare the maxima exactly
hasUVChanged_exact(pv, uv) ==
    IF ~uv.valid THEN FALSE
    ELSE pv.lastUV # uv.max_uv \/ pv.lastUVTime # uv.max_time_str

hasUVChanged(pv, uv) ==
    IF ~uv.valid THEN FALSE
    ELSE \/ Abs(pv.lastUV - uv.max_uv) > UV_TOLERANCE
         \/ pv.lastUVTime # uv.max_time_str

----------------------------------------------------------------------------
(* Inputs: what the two providers can answer *)

BaseSnapshot ==
    [ temp       |-> [i \in 0..8 |-> 1850 + 40 * i],
      id         |-> [k \in 0..39 |-> IF k < 8 THEN 800 ELSE 500 + k \div 8],
      temp_max   |-> [k \in 0..39 |-> 2000 + 25 * (k % 8) + 100 * (k \div 8)],
      temp_min   |-> [k \in 0..39 |-> 900 + 25 * (k % 8) + 100 * (k \div 8)],
      pop        |-> [i \in 0..7 |-> 50 * i],
      wind_speed |-> 350,
      wind_deg   |-> 180,
      clouds_all |-> 40,
      humidity   |-> 65,
      sunrise    |-> 1717182000,
      sunset     |-> 1717218000,
      moonIcon   |-> 12,
      dt_txt     |-> [k \in 0..8 |-> [day |-> IF k < 3 THEN 1 ELSE 2]] ]

\* only the hourly series moves (by 1.2 degrees at the fifth sample)
HourlySnapshot == [BaseSnapshot EXCEPT !.temp[4] = @ + 120]

\* the wind turns and the current temperature moves by 0.3 degrees
BreezeSnapshot == [BaseSnapshot EXCEPT !.wind_deg = 225, !.temp[0] = @ + 30]

\* rain moves in: probabilities and the first forecast day's code change
RainSnapshot ==
    [BaseSnapshot EXCEPT !.pop = [i \in 0..7 |-> 400 + 50 * i],
                         !.id[getNextDayIndex(BaseSnapshot) + 4] = 501]

\* a night around freezing: all nine hourly temperatures within 0.5 of 0
FrostSnapshot == [BaseSnapshot EXCEPT !.temp = [i \in 0..8 |-> 20 - 5 * i]]

\* parsed, but the current temperature is implausible (150 degrees)
ImplausibleSnapshot == [BaseSnapshot EXCEPT !.temp[0] = 15000]

Snapshots ==
    { BaseSnapshot, HourlySnapshot, BreezeSnapshot, RainSnapshot,
      FrostSnapshot, ImplausibleSnapshot }

\* result.uv, result.uv_max, result.uv_max_time of an OpenUV answer
UVResponses ==
    { [uv |-> 520, uv_max |-> 830, uv_max_time |-> IsoTime(1, 0)],
      [uv |-> 540, uv_max |-> 835, uv_max_time |-> IsoTime(1, 0)],
      [uv |-> 0,   uv_max |-> 310, uv_max_time |-> NoString] }

\* TIMEZONE NZ: toLocal(now()) - now() in seconds (standard time)
ZoneOffsets == {12 * 3600}

CondOutcomes == {"nomem", "failed", "parsed"}

\* how one call of updateUVData goes: no WiFi association; http.GET()
\* gives up waiting and returns a negative client code; the provider
\* answers with a status other than 200; the body is not JSON; success
UVOutcomes == {"nowifi", "timeout", "http_error", "parse_error", "ok"}

----------------------------------------------------------------------------
(* Initial values of the globals *)

InitialUVData ==
    [ current_uv |-> 0, max_uv |-> 0, max_uv_time |-> 0, valid |-> FALSE,
      lastUpdate |-> UL(0), max_time_str |-> <<>> ]

\* zero-initialised struct PreviousValues, before setup runs
ZeroPreviousValues ==
    [ temp |-> 0, weatherId |-> 0, windSpeed |-> 0, windDeg |-> 0,
      clouds |-> 0, humidity |-> 0, sunrise |-> 0, sunset |-> 0,
      moonPhaseIcon |-> 0,
      forecastTemps |-> [i \in 0..3 |-> <<0, 0>>],
      forecastIds |-> [i \in 0..3 |-> 0],
      pop |-> [i \in 0..7 |-> 0],
      hourlyTemps |-> [i \in 0..8 |-> 0],
      lastTimeStr |-> <<>>, lastDateStr |-> <<>>,
      lastUV |-> 0, lastUVTime |-> <<>> ]

initPreviousValues(pv) ==
    [ pv EXCEPT !.temp = -SENTINEL,
                !.weatherId = 0,
                !.windSpeed = -SENTINEL,
                !.windDeg = 9999,
                !.clouds = 255,
                !.humidity = 255,
                !.sunrise = 0,
                !.sunset = 0,
                !.moonPhaseIcon = 255,
                !.lastUV = -100,
                !.lastUVTime = <<>>,
                !.forecastTemps = [i \in 0..3 |-> <<0, 0>>],
                !.forecastIds = [i \in 0..3 |-> 0],
                !.pop = [i \in 0..7 |-> 0],
                !.hourlyTemps = [i \in 0..8 |-> 0],
                !.lastTimeStr = <<>>,
                !.lastDateStr = <<>> ]

----------------------------------------------------------------------------
(* Clock *)

\* one loop delay of the model: half a conditions interval plus delay(100)
TickMs == (1000 * UPDATE_INTERVAL_SECS) \div 2 + LOOP_DELAY_MS

\* the loop is observed after one or two such delays
Delays == {1, 2}

\* number of delays a run is followed for
MaxTicks == 6

\* delay(500) + delay(10) + delay(2000) + delay(2000) in setup
SETUP_DELAY_MS == 500 + 10 + 2000 + 2000

\* local wall-clock minute at boot (23:40 on day 1)
BootLocalMinute == 23 * 60 + 40

localMinutes(t) == BootLocalMinute + (t * TickMs) \div 60000

hour(lm) == (lm \div 60) % 24

minute(lm) == lm % 60

day(lm) == 1 + lm \div 1440

\* printf("%d", n) for 0 <= n <= 99
FmtD(n) == IF n < 10 THEN <<Digit(n)>> ELSE Fmt02(n)

\* millis() - last, in unsigned long
\* a difference taken without the modulus: nothing has elapsed when the
\* counter reads less than the stamp
elapsed_withoutWrap(now, last) ==
    IF now[1] < last[1] \/ (now[1] = last[1] /\ now[2] < last[2])
    THEN UL(0)
    ELSE SubUL(now, last)

elapsed(now, last) == SubUL(now, last)

----------------------------------------------------------------------------
(* Rendering: each operator returns prevVals as the draw leaves it *)

\* drawTime: timeStr "%02d:%02d", buf "Updated: <month> %d %02d:%02d"
\* lm is the local wall-clock minute, toLocal(now()) / 60
timeStrings(lm) ==
    LET hhmm == Fmt02(hour(lm)) \o <<":">> \o Fmt02(minute(lm))
    IN  [ timeStr |-> Truncate(hhmm, 8),
          buf     |-> Truncate(<<"U", "p", "d", "a", "t", "e", "d", ":", " ",
                                   "J", "u", "n", " ">> \o FmtD(day(lm))
                                 \o <<" ">> \o hhmm, 32) ]

timeChanged(pv, lm) ==
    \/ timeStrings(lm).timeStr # pv.lastTimeStr
    \/ timeStrings(lm).buf # pv.lastDateStr

\* a drawTime that redraws without remembering what it drew
drawTime_withoutCommit(pv, lm) == pv

drawTime(pv, lm) ==
    IF timeChanged(pv, lm)
    THEN [pv EXCEPT !.lastTimeStr = timeStrings(lm).timeStr,
                    !.lastDateStr = timeStrings(lm).buf]
    ELSE pv

\* the band colour of the UV text; uvIndex in hundredths
getUVColor(uvIndex) ==
    IF uvIndex < 0 THEN "TFT_WHITE"
    ELSE IF uvIndex <= 200 THEN "TFT_GREEN"
    ELSE IF uvIndex <= 500 THEN "TFT_YELLOW"
    ELSE IF uvIndex <= 700 THEN "TFT_ORANGE"
    ELSE IF uvIndex <= 1000 THEN "TFT_RED"
    ELSE "TFT_VIOLET"

\* a banding whose upper bounds would be exclusive
getUVCategory_exclusive(uvIndex) ==
    IF uvIndex < 0 THEN "N/A"
    ELSE IF uvIndex < 200 THEN "LOW"
    ELSE IF uvIndex < 500 THEN "MODERATE"
    ELSE IF uvIndex < 700 THEN "HIGH"
    ELSE IF uvIndex < 1000 THEN "VERY HIGH"
    ELSE "EXTREME"

getUVCategory(uvIndex) ==
    IF uvIndex < 0 THEN "N/A"
    ELSE IF uvIndex <= 200 THEN "LOW"
    ELSE IF uvIndex <= 500 THEN "MODERATE"
    ELSE IF uvIndex <= 700 THEN "HIGH"
    ELSE IF uvIndex <= 1000 THEN "VERY HIGH"
    ELSE "EXTREME"

\* printf "%.1f" of a value kept in hundredths: rounded to the nearest tenth
Fmt1(v) ==
    LET tenths == (Abs(v) + 5) \div 10
    IN  (IF v < 0 THEN <<"-">> ELSE <<>>)
        \o FmtD(tenths \div 10) \o <<".">> \o <<Digit(tenths % 10)>>

\* the UV line before anything was drawn on it, or after it was cleared
BlankLine == [number |-> <<>>, at |-> <<>>, color |-> "none"]

\* a UV line that would keep printing the last fetched number
uvText_lastKnown(uv) ==
    [number |-> Fmt1(uv.max_uv),
     at |-> IF uv.max_time_str # NoString THEN uv.max_time_str
            ELSE <<"-", "-", ":", "-", "-">>,
     color |-> getUVColor(uv.max_uv)]

\* drawUVIndex, lines 378-385: "Max UV: <number> at <at>" and its colour
uvText(uv) ==
    IF uv.valid
    THEN [number |-> Fmt1(uv.max_uv),
          at |-> IF uv.max_time_str # NoString THEN uv.max_time_str
                 ELSE <<"-", "-", ":", "-", "-">>,
          color |-> getUVColor(uv.max_uv)]
    ELSE [number |-> <<"-", "-">>,
          at |-> <<"-", "-", ":", "-", "-">>,
          color |-> "TFT_DARKGREY"]

\* a draw of the UV line that would commit nothing
drawUVIndex_withoutCommit(pv, uv) == pv

\* drawUVIndex, lines 395-398: what the draw commits to prevVals
drawUVIndex(pv, uv) ==
    IF uv.valid
    THEN [pv EXCEPT !.lastUV = uv.max_uv, !.lastUVTime = uv.max_time_str]
    ELSE pv

\* updateData, lines 644-666: drawCurrentWeather and the commit after it
drawCurrentWeather(pv, f) ==
    [pv EXCEPT !.temp = f.temp[0], !.weatherId = f.id[0]]

\* a forecast whose first column would start at the current sample
forecastColumn_fromToday(f, i) == 8 * i

\* a forecast whose columns would be ten samples apart
forecastColumn_tenApart(f, i) == getNextDayIndex(f) + 10 * i

\* drawForecast, lines 793 and 826: the first sample of column i
forecastColumn(f, i) == getNextDayIndex(f) + 8 * i

drawForecast(pv, f) ==
    IF ~isForecastDataValid(f) THEN pv
    ELSE LET committed(i) == forecastColumn(f, i) + 4 < MAX_DAYS * 8
         IN  [pv EXCEPT
                !.forecastTemps =
                    [i \in 0..3 |-> IF committed(i)
                                    THEN dayMinMax(f, forecastColumn(f, i))
                                    ELSE pv.forecastTemps[i]],
                !.forecastIds =
                    [i \in 0..3 |-> IF committed(i)
                                    THEN f.id[forecastColumn(f, i) + 4]
                                    ELSE pv.forecastIds[i]],
                !.pop = [i \in 0..7 |-> f.pop[i]]]

\* the graph ends by re-emitting the UV line
drawHourlyTemperatureGraph(pv, f, uv) ==
    IF ~isForecastDataValid(f) THEN pv ELSE drawUVIndex(pv, uv)

\* whether drawAstronomy goes on to redraw the hourly graph
hourlyGraphDue(pv, f) == hasHourlyTempChanged(pv, f)

\* a compass that would cut the circle at the labels instead of between them
windAngle_floor(wind_deg) ==
    LET a == wind_deg \div 45 IN IF a > 7 THEN 0 ELSE a

\* drawAstronomy, lines 897-898: the index of the wind arrow
windAngle(wind_deg) ==
    LET a == (wind_deg + 22) \div 45 IN IF a > 7 THEN 0 ELSE a

\* drawAstronomy, line 899
windDir ==
    [k \in 0..7 |->
        <<"N", "NE", "E", "SE", "S", "SW", "W", "NW">>[k + 1]]

\* an astronomy redraw that would commit the hourly series without
\* drawing the graph
drawAstronomy_commitsHourly(pv, f, uv) ==
    IF ~isForecastDataValid(f) THEN pv
    ELSE [pv EXCEPT !.hourlyTemps = [i \in 0..8 |-> f.temp[i]],
                    !.windSpeed = f.wind_speed,
                    !.windDeg = f.wind_deg,
                    !.clouds = f.clouds_all,
                    !.humidity = f.humidity,
                    !.sunrise = f.sunrise,
                    !.sunset = f.sunset,
                    !.moonPhaseIcon = f.moonIcon]

drawAstronomy(pv, f, uv) ==
    IF ~isForecastDataValid(f) THEN pv
    ELSE LET p1 == IF hourlyGraphDue(pv, f)
                   THEN [drawHourlyTemperatureGraph(pv, f, uv) EXCEPT
                           !.hourlyTemps = [i \in 0..8 |-> f.temp[i]]]
                   ELSE pv
         IN  [p1 EXCEPT !.windSpeed = f.wind_speed,
                        !.windDeg = f.wind_deg,
                        !.clouds = f.clouds_all,
                        !.humidity = f.humidity,
                        !.sunrise = f.sunrise,
                        !.sunset = f.sunset,
                        !.moonPhaseIcon = f.moonIcon]

----------------------------------------------------------------------------
(* updateData: one conditions cycle *)

\* the tests that guard each section of the cycle
weatherDue(fr, pv, f) == fr \/ hasWeatherChanged(pv, f)

forecastDue(fr, pv, f) == fr \/ hasForecastChanged(pv, f) \/ hasPopChanged(pv, f)

astronomyDue(fr, pv, f) == fr \/ hasAstronomyChanged(pv, f)

\* Each step of a successful cycle takes and returns the render state
\* [pv |-> prevVals, drawn |-> the sections drawn so far, in order].
timeStep(rs, t) ==
    IF timeChanged(rs.pv, localMinutes(t))
    THEN [pv |-> drawTime(rs.pv, localMinutes(t)), drawn |-> Append(rs.drawn, "time")]
    ELSE rs

weatherStep(rs, fr, f) ==
    IF weatherDue(fr, rs.pv, f)
    THEN [pv |-> drawCurrentWeather(rs.pv, f),
          drawn |-> Append(rs.drawn, "weather")]
    ELSE rs

firstUVStep(rs, fr, uv) ==
    IF fr
    THEN [pv |-> drawUVIndex(rs.pv, uv), drawn |-> Append(rs.drawn, "uv")]
    ELSE rs

forecastStep(rs, fr, f) ==
    IF forecastDue(fr, rs.pv, f)
    THEN [pv |-> drawForecast(rs.pv, f),
          drawn |-> rs.drawn \o <<"forecast", "pop">>]
    ELSE rs

astronomyStep(rs, fr, f, uv) ==
    IF astronomyDue(fr, rs.pv, f)
    THEN [pv |-> drawAstronomy(rs.pv, f, uv),
          drawn |-> rs.drawn \o <<"astronomy">> \o
                    (IF hourlyGraphDue(rs.pv, f) THEN <<"hourly", "uv">>
                     ELSE <<>>)]
    ELSE rs

\* a cycle that would draw the forecast before the current conditions
renderConditions_forecastFirst(pv, fr, f, uv, t) ==
    astronomyStep(
        firstUVStep(
            weatherStep(
                forecastStep(timeStep([pv |-> pv, drawn |-> <<>>], t), fr, f),
                fr, f),
            fr, uv),
        fr, f, uv)

\* updateData, lines 634-691: the sections a successful cycle draws, in
\* order, and prevVals after it
renderConditions(pv, fr, f, uv, t) ==
    astronomyStep(
        forecastStep(
            firstUVStep(
                weatherStep(timeStep([pv |-> pv, drawn |-> <<>>], t), fr, f),
                fr, uv),
            fr, f),
        fr, f, uv)

\* outcome "nomem": new returned null; "failed": getForecast returned false
\* and left the fresh object with whatever content `snap` stands for;
\* "parsed": getForecast returned true and filled the object with `snap`
updateData(pv, fr, uv, outcome, snap, t) ==
    IF outcome = "nomem"
    THEN [forecast |-> NULL, pv |-> pv, firstRun |-> fr,
          status |-> "nomem", drawn |-> <<>>]
    ELSE IF outcome = "parsed" /\ isForecastDataValid(snap)
    THEN LET r == renderConditions(pv, fr, snap, uv, t)
         IN  [forecast |-> snap, pv |-> r.pv, firstRun |-> FALSE,
              status |-> "ok", drawn |-> r.drawn]
    ELSE [forecast |-> snap, pv |-> pv, firstRun |-> fr,
          status |-> IF outcome = "parsed" THEN "invalid" ELSE "failed",
          drawn |-> <<>>]

----------------------------------------------------------------------------
(* updateUVData and the UV cycle of loop *)

\* an updateUVData that would invalidate the snapshot when WiFi is down
updateUVData_failsWithoutWiFi(uv, outcome, resp, offsetSec, now) ==
    IF outcome = "ok"
    THEN [uv EXCEPT !.current_uv = resp.uv,
                    !.max_uv = resp.uv_max,
                    !.max_time_str = maxTimeLabel(resp.uv_max_time, offsetSec),
                    !.valid = TRUE,
                    !.lastUpdate = now]
    ELSE [uv EXCEPT !.valid = FALSE]

updateUVData(uv, outcome, resp, offsetSec, now) ==
    CASE outcome = "nowifi" -> uv
      [] outcome = "ok" ->
            [uv EXCEPT !.current_uv = resp.uv,
                       !.max_uv = resp.uv_max,
                       !.max_time_str = maxTimeLabel(resp.uv_max_time, offsetSec),
                       !.valid = TRUE,
                       !.lastUpdate = now]
      [] outcome = "parse_error" -> [uv EXCEPT !.valid = FALSE]
      [] outcome = "http_error" -> [uv EXCEPT !.valid = FALSE]
      [] outcome = "timeout" -> [uv EXCEPT !.valid = FALSE]

\* a loop that would not redraw on a change of validity
uvRedrawDue_noTransition(fr, pv, uv, prevValid) ==
    fr \/ hasUVChanged(pv, uv)

\* loop, line 519
uvRedrawDue(fr, pv, uv, prevValid) ==
    fr \/ hasUVChanged(pv, uv) \/ prevValid # uv.valid

\* a loop that would not force the first conditions cycle
conditionsDue_ignoringBoot(b, now, last) ==
    GreaterUL(elapsed(now, last), 1000 * UPDATE_INTERVAL_SECS)

\* loop, lines 505 and 514
conditionsDue(b, now, last) ==
    b \/ GreaterUL(elapsed(now, last), 1000 * UPDATE_INTERVAL_SECS)

\* a loop that would time the UV cycle from the conditions cycle's stamp
uvDue_sharedStamp(b, now, last) ==
    b \/ GreaterUL(elapsed(now, lastDownloadUpdate),
                   1000 * UV_UPDATE_INTERVAL_SECS)

uvDue(b, now, last) ==
    b \/ GreaterUL(elapsed(now, last), 1000 * UV_UPDATE_INTERVAL_SECS)

----------------------------------------------------------------------------
(* The program *)

ZeroDims == [k \in DOMAIN initScreenDimensions(0, 0) |-> 0]

ZeroLayout == [k \in DOMAIN initLayoutBounds(ZeroDims, 0, 0) |-> 0]

IdleCycle ==
    [ cond |-> "none",       \* outcome of this iteration's conditions cycle
      uv |-> "none",         \* outcome of this iteration's UV fetch
      condDrawn |-> <<>>,    \* sections updateData drew, in order
      prevValid |-> FALSE,   \* bool prevValid of the UV cycle
      uvChanged |-> FALSE,   \* hasUVChanged() as the UV cycle evaluated it
      uvDrawn |-> FALSE,     \* the UV cycle called drawUVIndex
      timeDrawn |-> FALSE,   \* loop's drawTime redrew the time
      rotated |-> FALSE,     \* loop called rotateUpdateIcon
      lastCond |-> "none" ]  \* outcome of the latest conditions cycle

\* tallest panel and the width/height ratios (in halves) of the layout runs
MaxPanelHeight == 400

PanelRatios == {2, 3, 4}

LandscapePanels ==
    { <<(h * r) \div 2, h>> : h \in 1..MaxPanelHeight, r \in PanelRatios }

Globals ==
    /\ pc = "boot"
    /\ screenWidth = 0
    /\ screenHeight = 0
    /\ dims = ZeroDims
    /\ layout = ZeroLayout
    /\ layoutOk = FALSE
    /\ mounted = "pending"
    /\ booted = TRUE
    /\ firstRun = TRUE
    /\ forecast = NULL
    /\ uvData = InitialUVData
    /\ prevVals = ZeroPreviousValues
    /\ clock = UL(0)
    /\ lastDownloadUpdate = UL(0)
    /\ lastUVUpdate = UL(0)
    /\ lastMinute = 0
    /\ ticks = 0
    /\ cycle = IdleCycle
    /\ uvLine = BlankLine
    /\ showUpdateIcon = FALSE
    /\ lastIconRotation = UL(0)

\* no function is being evaluated on its own
NoProbe == [fn |-> "none"]

NoResult == [fn |-> "none"]

Init ==
    /\ panel = <<TFT_WIDTH, TFT_HEIGHT>>
    /\ Globals
    /\ probe = NoProbe
    /\ result = NoResult

InitLayout ==
    /\ panel \in LandscapePanels
    /\ Globals
    /\ probe = NoProbe
    /\ result = NoResult

\* setup, lines 429-433: a failed layout check is reported on Serial and
\* setup goes on to mount the file system either way
afterLayoutCheck(ok) == "mount"

\* setup, lines 403-433: display bring-up, layout computation and check
SetupLayout ==
    /\ pc = "boot"
    /\ screenWidth' = panel[1]
    /\ screenHeight' = panel[2]
    /\ dims' = initScreenDimensions(panel[1], panel[2])
    /\ prevVals' = initPreviousValues(prevVals)
    /\ layout' = initLayoutBounds(dims', panel[1], panel[2])
    /\ layoutOk' = verifyNoOverlap(layout', dims')
    /\ pc' = afterLayoutCheck(layoutOk')
    /\ UNCHANGED <<panel, mounted, booted, firstRun, forecast, uvData, clock,
                   lastDownloadUpdate, lastUVUpdate, lastMinute, ticks, cycle,
                   uvLine, showUpdateIcon, lastIconRotation, probe, result>>


\* a setup that would ignore the result of LittleFS.begin
afterMount_ignoringFailure(ok) == "wifi"

\* setup, lines 435-444: LittleFS.begin(false); on failure the diagnostic
\* is drawn and setup spins in while (true) delay(1000)
afterMount(ok) == IF ok THEN "wifi" ELSE "fsHalt"

SetupMount(ok) ==
    /\ pc = "mount"
    /\ mounted' = IF ok THEN "ok" ELSE "failed"
    /\ pc' = afterMount(ok)
    /\ UNCHANGED <<panel, screenWidth, screenHeight, dims, layout, layoutOk,
                   booted, firstRun, forecast, uvData, prevVals, clock,
                   lastDownloadUpdate, lastUVUpdate, lastMinute, ticks, cycle,
                   uvLine, showUpdateIcon, lastIconRotation, probe, result>>

\* setup, lines 446-497: splash, WiFi association, time sync
SetupConnect ==
    /\ pc = "wifi"
    /\ pc' = "loop"
    /\ clock' = AddUL(clock, SETUP_DELAY_MS)
    /\ UNCHANGED <<panel, screenWidth, screenHeight, dims, layout, layoutOk,
                   mounted, booted, firstRun, forecast, uvData, prevVals,
                   lastDownloadUpdate, lastUVUpdate, lastMinute, ticks, cycle,
                   uvLine, showUpdateIcon, lastIconRotation, probe, result>>

\* what a failed getForecast may leave in the fresh OW_forecast object
FailedContents == {BaseSnapshot, ImplausibleSnapshot}

\* loop, line 500: whether this iteration animates the update icon
rotationDue(shown, now, last) == shown /\ GreaterUL(elapsed(now, last), 50)

\* a loop that would leave the flag set after the conditions cycle
iconAfterCycle_leftOn(due, shown) == IF due THEN TRUE ELSE shown

\* loop, lines 505-512: showUpdateIcon is set before updateData and cleared
\* after it returns
iconAfterCycle(due, shown) == IF due THEN FALSE ELSE shown

\* one iteration of loop(), followed by a delay of d ticks
loop(d) ==
    /\ pc = "loop"
    /\ ticks + d <= MaxTicks
    /\ LET cDue == conditionsDue(booted, clock, lastDownloadUpdate)
           uDue == uvDue(booted, clock, lastUVUpdate)
       IN
       \E co \in IF cDue THEN CondOutcomes ELSE {"none"} :
       \E snap \in CASE co = "parsed" -> Snapshots
                     [] co = "failed" -> FailedContents
                     [] OTHER -> {BaseSnapshot} :
       \E c \in { IF cDue
                  THEN updateData(prevVals, firstRun, uvData, co, snap, ticks)
                  ELSE [forecast |-> forecast, pv |-> prevVals,
                        firstRun |-> firstRun, status |-> "none",
                        drawn |-> <<>>] } :
       \E uo \in IF uDue THEN UVOutcomes ELSE {"none"} :
       \E resp \in IF uo = "ok" THEN UVResponses
                   ELSE {CHOOSE r \in UVResponses : TRUE} :
       \E off \in ZoneOffsets :
       \E uv1 \in { IF uDue THEN updateUVData(uvData, uo, resp, off, clock)
                    ELSE uvData } :
         LET changed == uDue /\ hasUVChanged(c.pv, uv1)
             redraw == uDue /\ uvRedrawDue(c.firstRun, c.pv, uv1, uvData.valid)
             pvU == IF redraw THEN drawUVIndex(c.pv, uv1) ELSE c.pv
             \* the UV line: wiped by the boot cycle's fillScreen, drawn
             \* by the conditions cycle from the old uvData (first run,
             \* hourly graph), drawn by the UV cycle from the new one
             condUV == \E k \in DOMAIN c.drawn : c.drawn[k] = "uv"
             rotate == rotationDue(showUpdateIcon, clock, lastIconRotation)
             wiped == booted /\ cDue /\ co # "nomem"
             tDue == minute(localMinutes(ticks)) # lastMinute
             pvT == IF tDue THEN drawTime(pvU, localMinutes(ticks)) ELSE pvU
         IN  /\ forecast' = c.forecast
             /\ firstRun' = c.firstRun
             /\ uvData' = uv1
             /\ prevVals' = pvT
             /\ lastDownloadUpdate' = IF cDue THEN clock ELSE lastDownloadUpdate
             /\ lastUVUpdate' = IF uDue THEN clock ELSE lastUVUpdate
             /\ booted' = FALSE
             /\ lastMinute' = minute(localMinutes(ticks))
             /\ showUpdateIcon' = iconAfterCycle(cDue, showUpdateIcon)
             /\ lastIconRotation' = IF rotate THEN clock ELSE lastIconRotation
             /\ uvLine' = IF redraw THEN uvText(uv1)
                          ELSE IF condUV THEN uvText(uvData)
                          ELSE IF wiped THEN BlankLine
                          ELSE uvLine
             /\ cycle' = [ cond |-> c.status,
                           uv |-> uo,
                           condDrawn |-> c.drawn,
                           prevValid |-> uDue /\ uvData.valid,
                           uvChanged |-> changed,
                           uvDrawn |-> redraw,
                           timeDrawn |-> tDue /\ timeChanged(pvU, localMinutes(ticks)),
                           rotated |-> rotate,
                           lastCond |-> IF cDue THEN c.status
                                        ELSE cycle.lastCond ]
    /\ ticks' = ticks + d
    /\ clock' = AddUL(clock, d * TickMs)
    /\ UNCHANGED <<pc, panel, screenWidth, screenHeight, dims, layout, layoutOk,
                   mounted, probe, result>>

Setup == SetupLayout \/ (\E ok \in BOOLEAN : SetupMount(ok)) \/ SetupConnect

Next == Setup \/ (\E d \in Delays : loop(d))

Spec == Init /\ [][Next]_vars

\* setup alone, over a range of landscape panels
NextLayout == Setup

SpecLayout == InitLayout /\ [][NextLayout]_vars

----------------------------------------------------------------------------
(* Properties of setup *)

\* C1: for every landscape panel (W >= H > 0) of the range, the layout that
\* initScreenDimensions and initLayoutBounds compute in 16-bit unsigned
\* arithmetic passes verifyNoOverlap: time above weather, weather above
\* the UV line, the UV line above the temperature graph, forecast above
\* the rain graph, the rain graph above the temperature graph, and the
\* left column left of the right one.
LayoutNeverOverlaps ==
    pc # "boot" =>
        verifyNoOverlap(
            initLayoutBounds(initScreenDimensions(screenWidth, screenHeight),
                             screenWidth, screenHeight),
            initScreenDimensions(screenWidth, screenHeight))

\* C2: on the 480x320 panel the layout check done in setup passes, as the
\* documented boot log shows.
LayoutCheckPassesOn480x320 ==
    (pc # "boot" /\ screenWidth = 480 /\ screenHeight = 320) => layoutOk

\* C9: when the layout check fails, setup does not complete: the control
\* loop is never entered and nothing is fetched or drawn by it.
FailedLayoutCheckHaltsSetup ==
    (pc # "boot" /\ ~layoutOk) =>
        /\ pc \notin {"wifi", "loop"}
        /\ cycle = IdleCycle
        /\ forecast = NULL

\* C10: when mounting the file system fails, the program stays in the
\* halted state of setup (diagnostic on screen, endless delay): WiFi is
\* never joined, the loop never runs, nothing is fetched.
MountFailureIsTerminal ==
    mounted = "failed" =>
        /\ pc = "fsHalt"
        /\ cycle = IdleCycle
        /\ forecast = NULL
        /\ uvData = InitialUVData
        /\ booted /\ firstRun
        /\ ticks = 0

\* the mount has failed and setup sits in its endless delay
MountFailureReached == mounted = "failed" /\ pc = "fsHalt"

----------------------------------------------------------------------------
(* Properties of the conditions cycle *)

Range(s) == { s[i] : i \in 1..Len(s) }

Count(s, x) == Cardinality({ i \in 1..Len(s) : s[i] = x })

\* the sections of the screen that updateData draws from the forecast
ConditionSections == {"weather", "forecast", "astronomy", "hourly"}

\* the committed values of those sections
CondFields(pv) ==
    << pv.temp, pv.weatherId, pv.forecastTemps, pv.forecastIds, pv.pop,
       pv.hourlyTemps, pv.windSpeed, pv.windDeg, pv.clouds, pv.humidity,
       pv.sunrise, pv.sunset, pv.moonPhaseIcon >>

\* the section's own change test finds a difference between the committed
\* values pv and the snapshot f
Dirty(section, pv, f) ==
    CASE section = "weather" -> hasWeatherChanged(pv, f)
      [] section = "forecast" -> hasForecastChanged(pv, f) \/ hasPopChanged(pv, f)
      [] section = "astronomy" -> hasAstronomyChanged(pv, f)
      [] section = "hourly" -> hasHourlyTempChanged(pv, f)

\* the committed values of the section are those drawn from the snapshot f
Committed(section, pv, f) ==
    CASE section = "weather" ->
            pv.temp = f.temp[0] /\ pv.weatherId = f.id[0]
      [] section = "forecast" ->
            /\ pv.pop = [i \in 0..7 |-> f.pop[i]]
            /\ \A i \in 0..3 :
                 LET idx == getNextDayIndex(f) + i * 8
                 IN  idx + 4 < MAX_DAYS * 8 =>
                       /\ pv.forecastTemps[i] = dayMinMax(f, idx)
                       /\ pv.forecastIds[i] = f.id[idx + 4]
      [] section = "astronomy" ->
            /\ pv.windSpeed = f.wind_speed /\ pv.windDeg = f.wind_deg
            /\ pv.clouds = f.clouds_all /\ pv.humidity = f.humidity
            /\ pv.sunrise = f.sunrise /\ pv.sunset = f.sunset
            /\ pv.moonPhaseIcon = f.moonIcon
      [] section = "hourly" ->
            pv.hourlyTemps = [i \in 0..8 |-> f.temp[i]]

\* C3: the first successful conditions cycle (the one that clears
\* firstRun) draws every section once - current weather, the UV line, the
\* forecast with the rain graph, astronomy and the hourly temperature
\* graph - and commits the values drawn, whatever the change tests say.
FirstCycleDrawsEverySection ==
    [][ (firstRun /\ ~firstRun') =>
          /\ \A x \in ConditionSections \cup {"uv"} :
                 x \in Range(cycle'.condDrawn)
          /\ \A x \in ConditionSections : Committed(x, prevVals', forecast')
      ]_vars

\* C4: of two consecutive successful cycles that deliver the same
\* snapshot, the first has drawn and committed every dirty section, so
\* the second finds no section dirty, draws none and commits nothing.
RepeatedSnapshotDrawsNothing ==
    [][ (cycle.lastCond = "ok" /\ cycle'.cond = "ok" /\ forecast' = forecast) =>
          /\ \A x \in ConditionSections : ~Dirty(x, prevVals, forecast')
          /\ Range(cycle'.condDrawn) \cap (ConditionSections \cup {"uv"}) = {}
          /\ CondFields(prevVals') = CondFields(prevVals)
      ]_vars

\* C5: a conditions cycle that fails (no memory, fetch failed, data
\* implausible) draws no section and leaves the committed values as they
\* were, and the next successful cycle draws and commits each section
\* that changed exactly once.
FailedCycleKeepsCommittedValues ==
    [][ /\ cycle'.cond \in {"nomem", "failed", "invalid"} =>
            /\ cycle'.condDrawn = <<>>
            /\ CondFields(prevVals') = CondFields(prevVals)
        /\ (cycle.lastCond \in {"nomem", "failed", "invalid"}
              /\ cycle'.cond = "ok") =>
            \A x \in ConditionSections :
                Dirty(x, prevVals, forecast') =>
                    /\ Count(cycle'.condDrawn, x) = 1
                    /\ Committed(x, prevVals', forecast')
      ]_vars

----------------------------------------------------------------------------
(* Properties of the UV cycle *)

OneOClock == <<"1", "3", ":", "0", "0">>

UVFailures == {"nowifi", "timeout", "http_error", "parse_error"}

\* C6 as stated: in every UV cycle hasUVChanged reports dirty iff the UV
\* data is valid and the committed maximum differs from the fetched one by
\* more than 0.1 or the committed time label differs from the fetched one;
\* and a valid fetch of 8.35 at 13:00 after 8.3 at 13:00 was drawn is
\* reported clean and commits nothing.
UVWithinToleranceCommitsNothing ==
    [][ cycle'.uv # "none" =>
          LET pv == IF "uv" \in Range(cycle'.condDrawn)
                    THEN drawUVIndex(prevVals, uvData) ELSE prevVals
          IN  /\ cycle'.uvChanged <=>
                    /\ uvData'.valid
                    /\ \/ Abs(pv.lastUV - uvData'.max_uv) > 10
                       \/ pv.lastUVTime # uvData'.max_time_str
              /\ (/\ cycle'.uv = "ok"
                  /\ pv.lastUV = 830 /\ pv.lastUVTime = OneOClock
                  /\ uvData'.max_uv = 835
                  /\ uvData'.max_time_str = OneOClock) =>
                    /\ ~cycle'.uvChanged
                    /\ ~cycle'.uvDrawn
                    /\ prevVals'.lastUV = 830
      ]_vars

\* C6, amended: in every UV cycle hasUVChanged reports dirty iff the UV
\* data is valid and the committed maximum differs from the fetched one by
\* more than 0.1 or the committed time label differs from the fetched one;
\* a valid fetch of 8.35 at 13:00 after 8.3 at 13:00 was drawn is reported
\* clean, and the UV cycle commits nothing when firstRun is false and the
\* UV data was already valid before the fetch.
UVWithinToleranceIsClean ==
    [][ cycle'.uv # "none" =>
          LET pv == IF "uv" \in Range(cycle'.condDrawn)
                    THEN drawUVIndex(prevVals, uvData) ELSE prevVals
          IN  /\ cycle'.uvChanged <=>
                    /\ uvData'.valid
                    /\ \/ Abs(pv.lastUV - uvData'.max_uv) > 10
                       \/ pv.lastUVTime # uvData'.max_time_str
              /\ (/\ cycle'.uv = "ok"
                  /\ pv.lastUV = 830 /\ pv.lastUVTime = OneOClock
                  /\ uvData'.max_uv = 835
                  /\ uvData'.max_time_str = OneOClock) =>
                    /\ ~cycle'.uvChanged
                    /\ (~firstRun' /\ cycle'.prevValid) =>
                          /\ ~cycle'.uvDrawn
                          /\ prevVals'.lastUV = 830
                          /\ prevVals'.lastUVTime = OneOClock
      ]_vars

\* 8.35 at 13:00 has just been fetched over a drawn 8.3 at 13:00, with
\* firstRun clear and the data valid before, and nothing was drawn
UVWithinToleranceFetched ==
    /\ cycle.uv = "ok" /\ cycle.prevValid /\ ~firstRun
    /\ uvData.max_uv = 835 /\ uvData.max_time_str = OneOClock
    /\ prevVals.lastUV = 830 /\ prevVals.lastUVTime = OneOClock
    /\ ~cycle.uvChanged /\ ~cycle.uvDrawn

\* C7 as stated: in every UV cycle, data invalid before and after the
\* fetch means drawUVIndex is not called, and a change of validity means
\* it is called - in every reachable state.
InvalidUVNeverRedraws ==
    cycle.uv # "none" =>
        /\ (~cycle.prevValid /\ ~uvData.valid) => ~cycle.uvDrawn
        /\ (cycle.prevValid # uvData.valid) => cycle.uvDrawn

\* C7, amended: in every UV cycle, data invalid before and after the
\* fetch means drawUVIndex is not called provided firstRun is false (a
\* conditions cycle has succeeded), and a change of validity means it is
\* called.
InvalidUVRedrawsOnlyOnFirstRun ==
    cycle.uv # "none" =>
        /\ (~cycle.prevValid /\ ~uvData.valid /\ ~firstRun) => ~cycle.uvDrawn
        /\ (cycle.prevValid # uvData.valid) => cycle.uvDrawn

\* a UV fetch has just failed on data that was already invalid, after a
\* conditions cycle had succeeded, and the UV line was left alone
InvalidUVLeftAlone ==
    /\ cycle.uv \in UVFailures
    /\ ~cycle.prevValid /\ ~uvData.valid /\ ~firstRun
    /\ ~cycle.uvDrawn

----------------------------------------------------------------------------
(* Properties of the two cadences *)

----------------------------------------------------------------------------
(* Properties of the change tests *)

\* prevVals once every section has been drawn from the snapshot f
CommitAll(pv, f) ==
    [drawForecast(drawCurrentWeather(pv, f), f) EXCEPT
        !.windSpeed = f.wind_speed, !.windDeg = f.wind_deg,
        !.clouds = f.clouds_all, !.humidity = f.humidity,
        !.sunrise = f.sunrise, !.sunset = f.sunset,
        !.moonPhaseIcon = f.moonIcon,
        !.hourlyTemps = [i \in 0..8 |-> f.temp[i]]]

\* the verdicts of the five tests on the forecast, in a fixed order
Verdicts(pv, f) ==
    << hasWeatherChanged(pv, f), hasForecastChanged(pv, f),
       hasPopChanged(pv, f), hasAstronomyChanged(pv, f),
       hasHourlyTempChanged(pv, f) >>

\* uvData after a successful fetch that answered resp
FetchedUV(resp) ==
    updateUVData(uvData, "ok", resp, CHOOSE off \in ZoneOffsets : TRUE, clock)

\* C11: every change test is symmetric. Whenever a valid snapshot has just
\* been fetched, each test gives the same verdict for (values committed
\* from another valid snapshot A, fetched snapshot) as for (values
\* committed from the fetched snapshot, A); and for valid UV data the UV
\* test gives the same verdict when committed and fetched data change
\* places.
DetectorsAreSymmetric ==
    /\ (cycle.cond = "ok") =>
          \A A \in { a \in Snapshots : isForecastDataValid(a) } :
              Verdicts(CommitAll(prevVals, A), forecast)
                  = Verdicts(CommitAll(prevVals, forecast), A)
    /\ (cycle.uv = "ok") =>
          \A resp \in UVResponses :
              hasUVChanged(drawUVIndex(prevVals, FetchedUV(resp)), uvData)
                  = hasUVChanged(drawUVIndex(prevVals, uvData), FetchedUV(resp))

\* a successful cycle has fetched a snapshot whose hourly series is more
\* than 0.5 away from the committed one
HourlySeriesFoundChanged ==
    /\ cycle.cond = "ok" /\ ~firstRun
    /\ \E i \in 0..8 : Abs(prevVals.hourlyTemps[i] - forecast.temp[i]) > 50

\* C12: in a successful cycle after the first, the current-conditions
\* section is redrawn iff the fetched temperature is more than 0.5 degree
\* away from the committed one or the condition code differs; a move of at
\* most 0.5 with the same code redraws nothing.
WeatherRedrawnBeyondTolerance ==
    [][ (cycle'.cond = "ok" /\ ~firstRun) =>
          ("weather" \in Range(cycle'.condDrawn)
              <=> \/ Abs(prevVals.temp - forecast'.temp[0]) > 50
                  \/ prevVals.weatherId # forecast'.id[0])
      ]_vars

\* C13: in every successful cycle, an hourly series more than 0.5 away
\* from the committed one at some sample gets the hourly graph redrawn and
\* the series committed in that cycle, whatever the other sections need.
HourlyGraphRedrawnWhenChanged ==
    [][ (/\ cycle'.cond = "ok"
         /\ \E i \in 0..8 :
               Abs(prevVals.hourlyTemps[i] - forecast'.temp[i]) > 50) =>
          /\ "hourly" \in Range(cycle'.condDrawn)
          /\ prevVals'.hourlyTemps = [i \in 0..8 |-> forecast'.temp[i]]
      ]_vars

\* C14: a conditions fetch that fails leaves the snapshot held before it
\* in place and redraws no conditions section.
FailedFetchKeepsSnapshot ==
    [][ cycle'.cond \in {"nomem", "failed"} =>
          /\ forecast' = forecast
          /\ cycle'.condDrawn = <<>>
      ]_vars

\* C15: a parsed snapshot whose current temperature is outside (-100, 100)
\* is handled like a failed fetch: no change test reports dirty, the
\* cycle draws nothing, prevVals is left as it was (the UV cycle and the
\* minute tick of the same iteration aside) and firstRun keeps its value.
ImplausibleSnapshotIsDiscarded ==
    [][ (/\ cycle'.cond \in {"ok", "invalid"}
         /\ ~(forecast'.temp[0] > -10000 /\ forecast'.temp[0] < 10000)) =>
          /\ Verdicts(prevVals, forecast')
                = <<FALSE, FALSE, FALSE, FALSE, FALSE>>
          /\ cycle'.condDrawn = <<>>
          /\ CondFields(prevVals') = CondFields(prevVals)
          /\ cycle'.uvDrawn \/
                /\ prevVals'.lastUV = prevVals.lastUV
                /\ prevVals'.lastUVTime = prevVals.lastUVTime
          /\ cycle'.timeDrawn \/
                /\ prevVals'.lastTimeStr = prevVals.lastTimeStr
                /\ prevVals'.lastDateStr = prevVals.lastDateStr
          /\ firstRun' = firstRun
      ]_vars

\* an implausible snapshot has just been parsed, after an earlier render
ImplausibleSnapshotParsed ==
    /\ cycle.cond = "invalid"
    /\ forecast.temp[0] >= 10000
    /\ ~firstRun

\* C16: no loop iteration runs both a conditions cycle and a UV cycle.
OneCyclePerIteration ==
    ~(cycle.cond # "none" /\ cycle.uv # "none")

----------------------------------------------------------------------------
(* Properties of the drawing order *)

RECURSIVE IsSubsequence(_, _)
\* s can be obtained from t by leaving elements out
IsSubsequence(s, t) ==
    IF s = <<>> THEN TRUE
    ELSE IF t = <<>> THEN FALSE
    ELSE IF Head(s) = Head(t) THEN IsSubsequence(Tail(s), Tail(t))
    ELSE IsSubsequence(s, Tail(t))

\* the order in which a conditions cycle goes through the sections
SectionOrder ==
    <<"time", "weather", "uv", "forecast", "pop", "astronomy", "hourly", "uv">>

\* C17: the sections a successful conditions cycle draws are drawn in the
\* order time, current conditions, UV line, forecast with the rain graph,
\* astronomy, hourly temperature graph, and every redraw of the hourly
\* graph is followed at once by the UV line.
SectionsDrawnInOrder ==
    cycle.cond = "ok" =>
        /\ IsSubsequence(cycle.condDrawn, SectionOrder)
        /\ \A i \in 1..Len(cycle.condDrawn) :
              cycle.condDrawn[i] = "hourly" =>
                  /\ i < Len(cycle.condDrawn)
                  /\ cycle.condDrawn[i + 1] = "uv"
        /\ \A i \in 1..Len(cycle.condDrawn) :
              cycle.condDrawn[i] = "forecast" =>
                  /\ i < Len(cycle.condDrawn)
                  /\ cycle.condDrawn[i + 1] = "pop"

\* a first cycle that drew every section, the UV line twice
EverySectionDrawn == cycle.cond = "ok" /\ cycle.condDrawn = SectionOrder

----------------------------------------------------------------------------
(* Properties of the layout rectangles *)

RegionNames ==
    {"time", "weather", "uv", "astronomy", "forecast", "popGraph", "tempGraph"}

\* the rectangle LayoutBounds holds for a region
Region(l, name) ==
    CASE name = "time" ->
            [x |-> l.timeX, y |-> l.timeY, w |-> l.timeW, h |-> l.timeH]
      [] name = "weather" ->
            [x |-> l.weatherX, y |-> l.weatherY, w |-> l.weatherW, h |-> l.weatherH]
      [] name = "uv" ->
            [x |-> l.uvX, y |-> l.uvY, w |-> l.uvW, h |-> l.uvH]
      [] name = "astronomy" ->
            [x |-> l.astronomyX, y |-> l.astronomyY,
             w |-> l.astronomyW, h |-> l.astronomyH]
      [] name = "forecast" ->
            [x |-> l.forecastX, y |-> l.forecastY,
             w |-> l.forecastW, h |-> l.forecastH]
      [] name = "popGraph" ->
            [x |-> l.popGraphX, y |-> l.popGraphY,
             w |-> l.popGraphW, h |-> l.popGraphH]
      [] name = "tempGraph" ->
            [x |-> l.tempGraphX, y |-> l.tempGraphY,
             w |-> l.tempGraphW, h |-> l.tempGraphH]

\* the rectangles share a pixel (touching edges do not)
Intersect(a, b) ==
    /\ a.x < b.x + b.w /\ b.x < a.x + a.w
    /\ a.y < b.y + b.h /\ b.y < a.y + a.h

\* C18: in the layout computed at startup no two distinct regions among
\* time, current conditions, UV band, astronomy, forecast, rain graph and
\* temperature graph have intersecting rectangles.
NoTwoRegionsIntersect ==
    pc # "boot" =>
        \A a, b \in RegionNames :
            a # b => ~Intersect(Region(layout, a), Region(layout, b))

----------------------------------------------------------------------------
(* Properties of the committed values *)

\* the fields of prevVals that belong to a section
SectionFields(section, pv) ==
    CASE section = "weather" -> <<pv.temp, pv.weatherId>>
      [] section = "forecast" -> <<pv.forecastTemps, pv.forecastIds, pv.pop>>
      [] section = "astronomy" ->
            <<pv.windSpeed, pv.windDeg, pv.clouds, pv.humidity,
              pv.sunrise, pv.sunset, pv.moonPhaseIcon>>
      [] section = "hourly" -> <<pv.hourlyTemps>>
      [] section = "uv" -> <<pv.lastUV, pv.lastUVTime>>
      [] section = "time" -> <<pv.lastTimeStr, pv.lastDateStr>>

\* C19: in a loop iteration a field of prevVals changes only if the
\* section showing it is drawn in that iteration, and it then holds the
\* value just drawn (of the fetched snapshot, of the UV data, of the
\* clock); the fields of sections that are not drawn keep their values.
CommittedOnlyWhenDrawn ==
    [][ ticks' # ticks =>
          /\ \A x \in ConditionSections :
                SectionFields(x, prevVals') # SectionFields(x, prevVals) =>
                    /\ cycle'.cond = "ok"
                    /\ x \in Range(cycle'.condDrawn)
                    /\ Committed(x, prevVals', forecast')
          /\ SectionFields("uv", prevVals') # SectionFields("uv", prevVals) =>
                \/ /\ cycle'.uvDrawn
                   /\ uvData'.valid
                   /\ SectionFields("uv", prevVals')
                         = <<uvData'.max_uv, uvData'.max_time_str>>
                \/ /\ "uv" \in Range(cycle'.condDrawn)
                   /\ ~cycle'.uvDrawn
                   /\ uvData.valid
                   /\ SectionFields("uv", prevVals')
                         = <<uvData.max_uv, uvData.max_time_str>>
          /\ SectionFields("time", prevVals') # SectionFields("time", prevVals) =>
                /\ cycle'.timeDrawn \/ "time" \in Range(cycle'.condDrawn)
                /\ SectionFields("time", prevVals')
                      = <<timeStrings(localMinutes(ticks)).timeStr,
                           timeStrings(localMinutes(ticks)).buf>>
      ]_vars

\* a successful cycle after the first has drawn the forecast and nothing
\* else of the conditions
OnlyForecastDrawn ==
    /\ cycle.cond = "ok"
    /\ Range(cycle.condDrawn) \cap ConditionSections = {"forecast"}
    /\ Committed("forecast", prevVals, forecast)

----------------------------------------------------------------------------
(* Properties of the schedule *)

\* C20: the first loop iteration attempts both fetches whatever the
\* clock says; every later iteration attempts the conditions fetch iff
\* more than 900 s have passed since the previous conditions attempt and
\* the UV fetch iff more than 1800 s have passed since the previous UV
\* attempt, whether those attempts succeeded or failed; each attempt
\* restarts its own interval.
FetchesFollowTheirIntervals ==
    [][ ticks' # ticks =>
          /\ booted => cycle'.cond # "none" /\ cycle'.uv # "none"
          /\ ~booted =>
                /\ cycle'.cond # "none"
                      <=> GreaterUL(SubUL(clock, lastDownloadUpdate), 900000)
                /\ cycle'.uv # "none"
                      <=> GreaterUL(SubUL(clock, lastUVUpdate), 1800000)
          /\ lastDownloadUpdate' =
                IF cycle'.cond # "none" THEN clock ELSE lastDownloadUpdate
          /\ lastUVUpdate' =
                IF cycle'.uv # "none" THEN clock ELSE lastUVUpdate
          /\ ~booted'
      ]_vars

\* a later iteration has attempted the conditions fetch again although no
\* attempt before it had succeeded
RetriedAfterFailures ==
    /\ ticks >= 3
    /\ cycle.cond \in {"nomem", "failed", "invalid"}
    /\ firstRun

----------------------------------------------------------------------------
(* The UV line on the display *)

\* the number and the time drawUVIndex prints for an invalid snapshot
NoNumber == <<"-", "-">>

NoLabel == <<"-", "-", ":", "-", "-">>

\* C21: a UV fetch that times out while the held UV snapshot is valid
\* leaves the snapshot valid, and the UV line still shows a number.
UVTimeoutKeepsSnapshot ==
    (cycle.uv = "timeout" /\ cycle.prevValid) =>
        /\ uvData.valid
        /\ uvLine.number # NoNumber

\* C22: after a UV fetch that the provider answered with a status other
\* than 200 or with a body that does not parse, the snapshot is invalid
\* and, at the end of that iteration, the UV line shows "-- at --:--".
UVErrorShowsUnavailable ==
    cycle.uv \in {"http_error", "parse_error"} =>
        /\ ~uvData.valid
        /\ uvLine.number = NoNumber
        /\ uvLine.at = NoLabel
        /\ uvLine.color = "TFT_DARKGREY"

\* a number was on the UV line when the provider's error came in
UVErrorReplacedNumber ==
    /\ cycle.uv \in {"http_error", "parse_error"}
    /\ cycle.prevValid
    /\ cycle.uvDrawn
    /\ ~firstRun

----------------------------------------------------------------------------
(* The helper functions of the sketch, each evaluated on its own: the      *)
(* initial state draws the arguments, one action per function applies it.  *)

\* String::indexOf(ch, fromIndex): positions count from 0, -1 if absent
indexOf(text, ch, fromIndex) ==
    IF fromIndex >= Len(text) THEN -1
    ELSE LET hits == {p \in fromIndex..(Len(text) - 1) : text[p + 1] = ch}
         IN  IF hits = {} THEN -1 ELSE SetMin(hits)

\* splitIndex, lines 1192-1194: the loop, from a value of index to its last
RECURSIVE splitScan(_, _)
splitScan(text, index) ==
    IF indexOf(text, " ", index) >= 0 /\ index <= Len(text) \div 2
    THEN splitScan(text, U16(indexOf(text, " ", index) + 1))
    ELSE index

splitIndex(text) ==
    LET index == splitScan(text, 0)
    IN  IF index > 0 THEN index - 1 ELSE 0

\* getMeteoconIcon, lines 1154-1159: the code after the night shift
nightShift(f, id, today, currentTime) ==
    IF /\ today
       /\ id \div 100 = 8
       /\ currentTime > 0
       /\ (currentTime < f.sunrise \/ currentTime > f.sunset)
    THEN U16(id + 1000)
    ELSE id

getMeteoconIcon(f, id0, today, currentTime) ==
    IF f = NULL THEN "unknown"
    ELSE LET id == nightShift(f, id0, today, currentTime)
         IN  IF id \div 100 = 2 THEN "thunderstorm"
             ELSE IF id \div 100 = 3 THEN "drizzle"
             ELSE IF id \div 100 = 4 THEN "unknown"
             ELSE IF id = 500 THEN "lightRain"
             ELSE IF id = 511 THEN "sleet"
             ELSE IF id \div 100 = 5 THEN "rain"
             ELSE IF id >= 611 /\ id <= 616 THEN "sleet"
             ELSE IF id \div 100 = 6 THEN "snow"
             ELSE IF id \div 100 = 7 THEN "fog"
             ELSE IF id = 800 THEN "clear-day"
             ELSE IF id = 801 THEN "partly-cloudy-day"
             ELSE IF id >= 802 /\ id <= 804 THEN "cloudy"
             ELSE IF id = 1800 THEN "clear-night"
             ELSE IF id = 1801 THEN "partly-cloudy-night"
             ELSE IF id >= 1802 /\ id <= 1804 THEN "cloudy"
             ELSE "unknown"

\* every program variable a function evaluation leaves alone
program == <<pc, panel, screenWidth, screenHeight, dims, layout, layoutOk,
             mounted, booted, firstRun, forecast, uvData, prevVals, clock,
             lastDownloadUpdate, lastUVUpdate, lastMinute, ticks, cycle,
             uvLine, showUpdateIcon, lastIconRotation>>

\* UV values from -MaxUVProbe to MaxUVProbe hundredths
MaxUVProbe == 1100

UVProbes(maxUV) ==
    { [fn |-> "getUVCategory", uvIndex |-> u] : u \in -maxUV..maxUV }

ApplyUVBand ==
    /\ probe.fn = "getUVCategory"
    /\ result = NoResult
    /\ result' = [fn |-> "getUVCategory",
                  category |-> getUVCategory(probe.uvIndex),
                  color |-> getUVColor(probe.uvIndex)]
    /\ UNCHANGED <<program, probe>>

\* wind bearings from 0 to MaxBearing degrees, and the largest uint16_t
MaxBearing == 720

BearingProbes(maxDeg) ==
    { [fn |-> "windAngle", wind_deg |-> d] : d \in (0..maxDeg) \cup {65535} }

ApplyCompass ==
    /\ probe.fn = "windAngle"
    /\ result = NoResult
    /\ result' = [fn |-> "windAngle",
                  windAngle |-> windAngle(probe.wind_deg),
                  label |-> windDir[windAngle(probe.wind_deg)]]
    /\ UNCHANGED <<program, probe>>

\* nine samples whose days of the month are drawn from two values
DayPatterns == [0..8 -> {1, 2}]

NextDayProbes(patterns) ==
    { [fn |-> "getNextDayIndex",
       forecast |-> [BaseSnapshot EXCEPT
                       !.dt_txt = [k \in 0..8 |-> [day |-> p[k]]]]] :
      p \in patterns }

ApplyNextDay ==
    /\ probe.fn = "getNextDayIndex"
    /\ result = NoResult
    /\ result' = [fn |-> "getNextDayIndex",
                  index |-> getNextDayIndex(probe.forecast)]
    /\ UNCHANGED <<program, probe>>

\* 40 consecutive three-hourly samples: the first one is slot `first` of
\* day `startDay` of a 30-day month
MonthLength == 30

ConsecutiveSamples(first, startDay) ==
    [k \in 0..(MAX_DAYS * 8 - 1) |->
        LET d == startDay + (first + k) \div 8
        IN  [month |-> IF d > MonthLength THEN 7 ELSE 6,
             day |-> IF d > MonthLength THEN d - MonthLength ELSE d,
             hour |-> 3 * ((first + k) % 8)]]

ColumnProbes(monthLength) ==
    { [fn |-> "drawForecast",
       forecast |-> [BaseSnapshot EXCEPT !.dt_txt = ConsecutiveSamples(h, d)]] :
      h \in 0..7, d \in 1..monthLength }

ApplyForecastColumns ==
    /\ probe.fn = "drawForecast"
    /\ result = NoResult
    /\ result' = [fn |-> "drawForecast",
                  columns |-> [i \in 0..3 |-> forecastColumn(probe.forecast, i)]]
    /\ UNCHANGED <<program, probe>>

\* descriptions of up to MaxTextLen characters, letters and spaces
MaxTextLen == 8

Texts == UNION { [1..n -> {"a", " "}] : n \in 0..MaxTextLen }

SplitProbes(texts) == { [fn |-> "splitIndex", text |-> t] : t \in texts }

ApplySplit ==
    /\ probe.fn = "splitIndex"
    /\ result = NoResult
    /\ result' = [fn |-> "splitIndex", index |-> splitIndex(probe.text)]
    /\ UNCHANGED <<program, probe>>

\* condition codes from 0 to MaxCode and the largest uint16_t, asked for
\* either slot at instants around the snapshot's sunrise and sunset (0 is
\* what now() returns before the clock is set)
MaxCode == 1900

Instants(f) == {0, f.sunrise - 1, f.sunrise, f.sunset, f.sunset + 1}

\* the fields of the snapshot that getMeteoconIcon reads
SunTimes == [sunrise |-> BaseSnapshot.sunrise, sunset |-> BaseSnapshot.sunset]

IconProbes(maxCode) ==
    { [fn |-> "getMeteoconIcon", forecast |-> SunTimes, id |-> id,
       today |-> today, now |-> t] :
      id \in (0..maxCode) \cup {65535}, today \in BOOLEAN,
      t \in Instants(SunTimes) }

ApplyIcon ==
    /\ probe.fn = "getMeteoconIcon"
    /\ result = NoResult
    /\ result' = [fn |-> "getMeteoconIcon",
                  icon |-> getMeteoconIcon(probe.forecast, probe.id,
                                           probe.today, probe.now)]
    /\ UNCHANGED <<program, probe>>

\* the samples one scan of a forecast day reads: lines 553-562, 809-818
\* and 854-863 (the loop breaks at the end of the arrays)
scanReads(idx) == {idx + j : j \in {k \in 0..7 : idx + k < MAX_DAYS * 8}}

\* hasForecastChanged, lines 548-567: the samples read for each day
changeTestReads(f) ==
    [i \in 0..3 |->
        LET idx == forecastColumn(f, i)
        IN  IF idx >= MAX_DAYS * 8 THEN {} ELSE scanReads(idx) \cup {idx + 4}]

\* drawForecast, lines 807-823
drawForecastReads(f) ==
    [i \in 0..3 |->
        LET idx == forecastColumn(f, i)
        IN  IF idx + 4 < MAX_DAYS * 8 THEN scanReads(idx) \cup {idx + 4} ELSE {}]

\* drawForecastDetail, lines 842-870
drawForecastDetailReads(f) ==
    [i \in 0..3 |->
        LET idx == forecastColumn(f, i)
        IN  IF idx >= MAX_DAYS * 8 \/ idx + 4 >= MAX_DAYS * 8 THEN {}
            ELSE {idx + 4} \cup scanReads(idx)]

ReadProbes(patterns) ==
    { [fn |-> "forecastReads",
       forecast |-> [BaseSnapshot EXCEPT
                       !.dt_txt = [k \in 0..8 |-> [day |-> p[k]]]]] :
      p \in patterns }

ApplyForecastReads ==
    /\ probe.fn = "forecastReads"
    /\ result = NoResult
    /\ result' = [fn |-> "forecastReads",
                  dayIndex |-> getNextDayIndex(probe.forecast),
                  changeTest |-> changeTestReads(probe.forecast),
                  draw |-> drawForecastReads(probe.forecast),
                  detail |-> drawForecastDetailReads(probe.forecast)]
    /\ UNCHANGED <<program, probe>>

\* rectangles with coordinates and sizes from 0 to MaxCoord, and the
\* largest uint16_t, requested on a screen of ProbeScreen pixels
MaxCoord == 6

ProbeScreen == [w |-> 4, h |-> 3]

Coords == (0..MaxCoord) \cup {65535}

AreaProbes(coords) ==
    { [fn |-> "clearArea", x |-> x, y |-> y, w |-> w, h |-> h] :
      x \in coords, y \in coords, w \in coords, h \in coords }

ApplyClearArea ==
    /\ probe.fn = "clearArea"
    /\ result = NoResult
    /\ result' = [fn |-> "clearArea",
                  filled |-> clearArea(probe.x, probe.y, probe.w, probe.h,
                                       ProbeScreen.w, ProbeScreen.h)]
    /\ UNCHANGED <<program, probe>>

\* local minutes at the start, the second minute and the end of an hour
\* early, mid-morning and late on two consecutive days
ClockMinutes ==
    { d * 1440 + h * 60 + m : d \in 0..1, h \in {0, 9, 23}, m \in {0, 1, 59} }

\* prevVals as setup leaves it, and as a drawTime at minute lm0 leaves it
CommittedClocks ==
    {initPreviousValues(ZeroPreviousValues)}
        \cup { drawTime(initPreviousValues(ZeroPreviousValues), lm0) :
                lm0 \in ClockMinutes }

TimeProbes(minutes) ==
    { [fn |-> "drawTime", pv |-> pv, lm |-> lm] :
      pv \in CommittedClocks, lm \in minutes }

\* drawTime, then drawTime again within the same local minute
ApplyDrawTime ==
    /\ probe.fn = "drawTime"
    /\ result = NoResult
    /\ LET once == drawTime(probe.pv, probe.lm)
       IN  result' = [fn |-> "drawTime",
                      drawn |-> timeChanged(probe.pv, probe.lm),
                      pv |-> once,
                      drawnAgain |-> timeChanged(once, probe.lm),
                      pvAgain |-> drawTime(once, probe.lm)]
    /\ UNCHANGED <<program, probe>>

\* how far around an interval, a sign change or a wrap the probes look
MaxSlack == 3

Slack == 0..MaxSlack

TopUL == <<65535, 65535>>

SignUL == <<32768, 0>>

Intervals ==
    [conditions |-> 1000 * UPDATE_INTERVAL_SECS, uv |-> 1000 * UV_UPDATE_INTERVAL_SECS]

\* true elapsed times: none, around each interval, and almost 2^32 ms
ElapsedTimes ==
    { UL(k) : k \in Slack }
        \cup { UL(Intervals[c] + k - MaxSlack) :
                c \in DOMAIN Intervals, k \in 0..(2 * MaxSlack) }
        \cup { SubUL(TopUL, UL(k)) : k \in Slack }

\* stamps: after boot, where the signed stamp turns negative, less than an
\* interval before the counter wraps, and at its very end
Stamps ==
    { UL(k) : k \in Slack }
        \cup { AddUL(SubUL(SignUL, UL(MaxSlack)), k) : k \in 0..(2 * MaxSlack) }
        \cup { AddUL(SubUL(UL(0), UL(Intervals[c] + MaxSlack)), k) :
                c \in DOMAIN Intervals, k \in 0..(2 * MaxSlack) }
        \cup { SubUL(TopUL, UL(k)) : k \in Slack }

CadenceProbes(stamps) ==
    { [fn |-> "cadence", test |-> c, last |-> last, gone |-> e] :
      c \in DOMAIN Intervals, last \in stamps, e \in ElapsedTimes }

\* the stamp is kept in a long; millis() has advanced by probe.gone since
ApplyCadence ==
    /\ probe.fn = "cadence"
    /\ result = NoResult
    /\ LET stamp == asLong(probe.last)
           now == PlusUL(probe.last, probe.gone)
       IN  result' = [fn |-> "cadence",
                      now |-> now,
                      due |-> IF probe.test = "conditions"
                              THEN conditionsDue(FALSE, now, UL(stamp))
                              ELSE uvDue(FALSE, now, UL(stamp))]
    /\ UNCHANGED <<program, probe>>

\* zone offsets of up to MaxOffsetHours either way, in quarter hours
MaxOffsetHours == 14

OffsetsSec == { q * 900 : q \in (-4 * MaxOffsetHours)..(4 * MaxOffsetHours) }

\* the minutes of the hour the provider's time is probed at
LabelMinutes == {0, 29, 59}

LabelProbes(offsets) ==
    { [fn |-> "maxTimeLabel", hh |-> hh, mm |-> mm, offsetSec |-> o] :
      hh \in 0..23, mm \in LabelMinutes, o \in offsets }

ApplyMaxTimeLabel ==
    /\ probe.fn = "maxTimeLabel"
    /\ result = NoResult
    /\ result' = [fn |-> "maxTimeLabel",
                  max_time_str |-> maxTimeLabel(IsoTime(probe.hh, probe.mm),
                                                probe.offsetSec)]
    /\ UNCHANGED <<program, probe>>

\* BaseSnapshot with the next day starting at sample `first`
StartingAt(first) ==
    [BaseSnapshot EXCEPT
        !.dt_txt = [k \in 0..8 |-> [day |-> IF k < first THEN 1 ELSE 2]]]

\* a snapshot after `held`: one sample's temp_min or temp_max has moved by
\* 0.4 or 0.6 degree, or one sample's condition code has changed
Successors(held) ==
    { [held EXCEPT !.temp_min[k] = @ + delta] :
        k \in 0..(MAX_DAYS * 8 - 1), delta \in {-60, -40, 40, 60} }
    \cup { [held EXCEPT !.temp_max[k] = @ + delta] :
        k \in 0..(MAX_DAYS * 8 - 1), delta \in {-60, -40, 40, 60} }
    \cup { [held EXCEPT !.id[k] = 600] : k \in 0..(MAX_DAYS * 8 - 1) }

\* prevVals as drawForecast left them for `held`, and the next snapshot
ForecastProbes(starts) ==
    { [fn |-> "hasForecastChanged",
       prevVals |-> drawForecast(initPreviousValues(ZeroPreviousValues),
                                 StartingAt(first)),
       forecast |-> f] :
      first \in starts, f \in UNION { Successors(StartingAt(n)) : n \in starts } }

ApplyForecastTest ==
    /\ probe.fn = "hasForecastChanged"
    /\ result = NoResult
    /\ result' = [fn |-> "hasForecastChanged",
                  changed |-> hasForecastChanged(probe.prevVals, probe.forecast),
                  committed |-> drawForecast(probe.prevVals, probe.forecast)]
    /\ UNCHANGED <<program, probe>>

\* the arguments the helper function named fn is applied to
Probes(fn) ==
    CASE fn = "getUVCategory" -> UVProbes(MaxUVProbe)
      [] fn = "windAngle" -> BearingProbes(MaxBearing)
      [] fn = "getNextDayIndex" -> NextDayProbes(DayPatterns)
      [] fn = "drawForecast" -> ColumnProbes(MonthLength)
      [] fn = "splitIndex" -> SplitProbes(Texts)
      [] fn = "getMeteoconIcon" -> IconProbes(MaxCode)
      [] fn = "hasForecastChanged" -> ForecastProbes({3, 8})
      [] fn = "forecastReads" -> ReadProbes(DayPatterns)
      [] fn = "clearArea" -> AreaProbes(Coords)
      [] fn = "drawTime" -> TimeProbes(ClockMinutes)
      [] fn = "cadence" -> CadenceProbes(Stamps)
      [] fn = "maxTimeLabel" -> LabelProbes(OffsetsSec)

Functions ==
    { "getUVCategory", "windAngle", "getNextDayIndex", "drawForecast",
      "splitIndex", "getMeteoconIcon", "hasForecastChanged", "forecastReads",
      "clearArea", "drawTime", "cadence", "maxTimeLabel" }

InitFunctions ==
    /\ panel = <<TFT_WIDTH, TFT_HEIGHT>>
    /\ Globals
    /\ \E fn \in Functions : probe \in Probes(fn)
    /\ result = NoResult

NextFunctions ==
    \/ ApplyUVBand
    \/ ApplyCompass
    \/ ApplyNextDay
    \/ ApplyForecastColumns
    \/ ApplySplit
    \/ ApplyIcon
    \/ ApplyForecastTest
    \/ ApplyForecastReads
    \/ ApplyClearArea
    \/ ApplyDrawTime
    \/ ApplyCadence
    \/ ApplyMaxTimeLabel

SpecFunctions == InitFunctions /\ [][NextFunctions]_vars

----------------------------------------------------------------------------
(* Helper functions *)

\* the colour getUVColor gives each band of getUVCategory
BandColor(category) ==
    CASE category = "N/A" -> "TFT_WHITE"
      [] category = "LOW" -> "TFT_GREEN"
      [] category = "MODERATE" -> "TFT_YELLOW"
      [] category = "HIGH" -> "TFT_ORANGE"
      [] category = "VERY HIGH" -> "TFT_RED"
      [] category = "EXTREME" -> "TFT_VIOLET"

\* C23: getUVCategory puts every UV value u in exactly one band, upper
\* bounds inclusive: u < 0 N/A, 0 <= u <= 2 LOW, 2 < u <= 5 MODERATE,
\* 5 < u <= 7 HIGH, 7 < u <= 10 VERY HIGH, u > 10 EXTREME; getUVColor
\* returns the colour of that band.
UVBandsAreInclusive ==
    result.fn = "getUVCategory" =>
        LET u == probe.uvIndex
            band == result.category
        IN  /\ band = "N/A" <=> u < 0
            /\ band = "LOW" <=> 0 <= u /\ u <= 200
            /\ band = "MODERATE" <=> 200 < u /\ u <= 500
            /\ band = "HIGH" <=> 500 < u /\ u <= 700
            /\ band = "VERY HIGH" <=> 700 < u /\ u <= 1000
            /\ band = "EXTREME" <=> 1000 < u
            /\ result.color = BandColor(band)

\* 10.0 was put in the band below 10.01
TenIsVeryHigh ==
    /\ result.fn = "getUVCategory"
    /\ probe.uvIndex = 1000
    /\ result.category = "VERY HIGH"
    /\ result.color = "TFT_RED"

\* C24: for every wind bearing the compass index lies in 0..7 and names
\* the 45-degree bucket centred on its label (0 and 22 give N, 23 gives
\* NE); bearings of 338 degrees and more wrap to N.
CompassBucketsAreCentred ==
    result.fn = "windAngle" =>
        LET d == probe.wind_deg
            k == result.windAngle
        IN  /\ k \in 0..7
            /\ d >= 338 => k = 0
            /\ d < 338 => 45 * k - 22 <= d /\ d <= 45 * k + 22
            /\ result.label = <<"N", "NE", "E", "SE", "S", "SW", "W", "NW">>[k + 1]

\* a bearing just short of north was wrapped to N
NorthWestWrapsToNorth ==
    /\ result.fn = "windAngle"
    /\ probe.wind_deg = 338
    /\ result.windAngle = 0
    /\ result.label = "N"

\* C25: getNextDayIndex returns the smallest index in 0..8 whose day of
\* the month differs from that of sample 0; for nine samples of which only
\* the fifth has another day it returns 4.
NextDayIsFirstOtherDay ==
    result.fn = "getNextDayIndex" =>
        LET dayOf(k) == probe.forecast.dt_txt[k].day
            others == {k \in 0..8 : dayOf(k) # dayOf(0)}
        IN  /\ others # {} =>
                /\ result.index \in others
                /\ \A k \in others : result.index <= k
            /\ others = {4} => result.index = 4

\* only the fifth sample had another day, and later samples returned to
\* the first day
OnlyFifthDiffers ==
    /\ result.fn = "getNextDayIndex"
    /\ {k \in 0..8 : probe.forecast.dt_txt[k].day
                        # probe.forecast.dt_txt[0].day} = {4}
    /\ result.index = 4

\* C26: for a valid snapshot of consecutive three-hourly samples the first
\* forecast column starts at a sample dated otherwise than sample 0, and
\* every later column starts 8 samples after the one before it.
ForecastStartsTomorrow ==
    result.fn = "drawForecast" =>
        LET date(k) == <<probe.forecast.dt_txt[k].month,
                         probe.forecast.dt_txt[k].day>>
        IN  /\ date(result.columns[0]) # date(0)
            /\ \A i \in 0..2 : result.columns[i + 1] = result.columns[i] + 8

\* the snapshot began at midnight, so tomorrow began eight samples on
ForecastFromMidnight ==
    /\ result.fn = "drawForecast"
    /\ probe.forecast.dt_txt[0].hour = 0
    /\ probe.forecast.dt_txt[0].day = MonthLength
    /\ result.columns = [i \in 0..3 |-> 8 + 8 * i]

\* C27: splitIndex returns the position of the last space that lies
\* strictly inside the text and at or before its midpoint (length / 2),
\* and 0 when there is no such space, whatever spaces follow the midpoint.
SplitsAtLastSpaceBeforeMidpoint ==
    result.fn = "splitIndex" =>
        LET text == probe.text
            inner == {p \in 1..(Len(text) - 2) :
                        text[p + 1] = " " /\ p <= Len(text) \div 2}
        IN  result.index = IF inner = {} THEN 0 ELSE SetMax(inner)

\* C28: getMeteoconIcon returns clear-night or partly-cloudy-night only
\* when it is called for the today slot with code 800 or 801 at an instant
\* before sunrise or after sunset; for a forecast-day slot, and for any
\* instant within [sunrise, sunset], 800 gives clear-day and 801 gives
\* partly-cloudy-day.
NightIconOnlyForTodayAtNight ==
    result.fn = "getMeteoconIcon" =>
        LET dark == \/ probe.now < probe.forecast.sunrise
                    \/ probe.now > probe.forecast.sunset
        IN  /\ result.icon \in {"clear-night", "partly-cloudy-night"} =>
                probe.today /\ probe.id \in {800, 801} /\ dark
            /\ (probe.id = 800 /\ (~probe.today \/ ~dark)) =>
                result.icon = "clear-day"
            /\ (probe.id = 801 /\ (~probe.today \/ ~dark)) =>
                result.icon = "partly-cloudy-day"

\* the names of the icon files
IconSet ==
    {"thunderstorm", "drizzle", "rain", "lightRain", "sleet", "snow", "fog",
     "clear-day", "clear-night", "partly-cloudy-day", "partly-cloudy-night",
     "cloudy", "unknown"}

\* C29: for every 16-bit code and either slot getMeteoconIcon returns a
\* name of the icon set: 2xx thunderstorm, 3xx drizzle, 500 light rain,
\* 511 and 611..616 sleet, other 5xx rain, other 6xx snow, 7xx fog,
\* 802..804 cloudy by day and by night, and unknown for every code outside
\* 2xx, 3xx, 5xx, 6xx, 7xx and 800..804.
EveryCodeHasItsIcon ==
    result.fn = "getMeteoconIcon" =>
        LET id == probe.id
            hundreds == probe.id \div 100
        IN  /\ result.icon \in IconSet
            /\ hundreds = 2 => result.icon = "thunderstorm"
            /\ hundreds = 3 => result.icon = "drizzle"
            /\ id = 500 => result.icon = "lightRain"
            /\ id \in {511} \cup (611..616) => result.icon = "sleet"
            /\ (hundreds = 5 /\ id \notin {500, 511}) => result.icon = "rain"
            /\ (hundreds = 6 /\ id \notin 611..616) => result.icon = "snow"
            /\ hundreds = 7 => result.icon = "fog"
            /\ id \in 802..804 => result.icon = "cloudy"
            /\ (hundreds \notin {2, 3, 5, 6, 7} /\ id \notin 800..804) =>
                result.icon = "unknown"

\* C30: for a valid snapshot hasForecastChanged is true iff, for some
\* forecast day i in 0..3, the minimum of temp_min or the maximum of
\* temp_max over the day's 8 samples (from getNextDayIndex() + 8*i) is
\* more than 0.5 away from the committed forecastTemps[i], or the code of
\* the day's fifth sample differs from forecastIds[i]; and drawForecast
\* commits these same minima, maxima and codes.
ForecastTestMatchesCommit ==
    result.fn = "hasForecastChanged" =>
        LET f == probe.forecast
            pv == probe.prevVals
            start(i) == getNextDayIndex(f) + 8 * i
            lo(i) == SetMin({f.temp_min[start(i) + j] : j \in 0..7})
            hi(i) == SetMax({f.temp_max[start(i) + j] : j \in 0..7})
        IN  /\ result.changed <=>
                  \E i \in 0..3 :
                      \/ Abs(pv.forecastTemps[i][1] - lo(i)) > 50
                      \/ Abs(pv.forecastTemps[i][2] - hi(i)) > 50
                      \/ pv.forecastIds[i] # f.id[start(i) + 4]
            /\ result.committed.forecastTemps = [i \in 0..3 |-> <<lo(i), hi(i)>>]
            /\ result.committed.forecastIds = [i \in 0..3 |-> f.id[start(i) + 4]]

\* a day's minimum alone moved by more than the tolerance, and the
\* forecast was found changed
ForecastMinimumMoved ==
    /\ result.fn = "hasForecastChanged"
    /\ result.changed
    /\ probe.forecast.id = BaseSnapshot.id
    /\ probe.forecast.temp_max = BaseSnapshot.temp_max
    /\ getNextDayIndex(probe.forecast) = 8
    /\ probe.prevVals.forecastIds = result.committed.forecastIds

----------------------------------------------------------------------------
(* Rectangles requested from the display *)

\* rectangle a lies within rectangle b
Within(a, b) ==
    /\ b.x <= a.x /\ a.x + a.w <= b.x + b.w
    /\ b.y <= a.y /\ a.y + a.h <= b.y + b.h

\* C31: the block drawForecast clears lies within the layout's forecast
\* region, the precipitation graph is cleared and drawn in exactly the
\* layout's popGraph rectangle, and so the graph's rectangle does not
\* intersect the layout's forecast region.
ForecastDrawsWithinLayout ==
    pc = "loop" =>
        /\ Within(forecastCleared(layout, screenWidth, screenHeight),
                  Region(layout, "forecast"))
        /\ popGraphDrawn(dims, screenWidth, screenHeight)
              = Region(layout, "popGraph")
        /\ ~Intersect(popGraphDrawn(dims, screenWidth, screenHeight),
                      Region(layout, "forecast"))

\* C32: at the end of every loop iteration, once the UV line has been
\* drawn, the line shows "-- at --:--" iff uvData.valid is false; and when
\* uvData.valid is true, the committed lastUV is within 0.1 of
\* uvData.max_uv and the committed lastUVTime equals uvData.max_time_str.
UVLineMatchesSnapshot ==
    (pc = "loop" /\ uvLine # BlankLine) =>
        /\ uvLine.number = NoNumber <=> ~uvData.valid
        /\ uvData.valid =>
              /\ Abs(prevVals.lastUV - uvData.max_uv) <= 10
              /\ prevVals.lastUVTime = uvData.max_time_str

\* the hourly graph cleared and re-emitted the UV line, and the UV fetch
\* after it brought a value within the tolerance of the one on display
UVLineSurvivesGraphRedraw ==
    /\ "hourly" \in Range(cycle.condDrawn)
    /\ cycle.uv = "ok"
    /\ ~cycle.uvDrawn
    /\ uvData.valid
    /\ prevVals.lastUV # uvData.max_uv

\* C33: showUpdateIcon is false at the start of every loop iteration, so
\* no iteration takes the animation branch and rotateUpdateIcon never runs.
UpdateIconNeverAnimated ==
    /\ ~showUpdateIcon
    /\ ~cycle.rotated
    /\ lastIconRotation = UL(0)

\* a conditions cycle that returned early has come and gone
IconClearedAfterEarlyReturn ==
    /\ cycle.cond = "nomem"
    /\ ~booted
    /\ ~showUpdateIcon

\* C34: booted is true only during the first loop iteration and false
\* after it whatever the fetches returned; firstRun changes only from true
\* to false, at the end of a conditions cycle whose snapshot parsed and
\* passed the range check; and once firstRun is false every conditions
\* section has been committed at least once (its fields are no longer the
\* ones initPreviousValues wrote).
StartupFlagsAreMonotone ==
    [][ ticks' # ticks =>
          /\ booted <=> ticks = 0
          /\ ~booted'
          /\ firstRun' # firstRun =>
                firstRun /\ ~firstRun' /\ cycle'.cond = "ok"
          /\ ~firstRun' =>
                \A x \in ConditionSections :
                    SectionFields(x, prevVals')
                        # SectionFields(x, initPreviousValues(ZeroPreviousValues))
      ]_vars

\* C35: with 40 samples, for every value of getNextDayIndex (0..8), every
\* day i in 0..3 and every offset j in 0..7, hasForecastChanged,
\* drawForecast and drawForecastDetail read the samples start + j and
\* start + 4 (start = dayIndex + 8*i), all below 40: no read is out of
\* bounds, no scan is cut short and no day is skipped by a bounds guard.
ForecastReadsStayInBounds ==
    result.fn = "forecastReads" =>
        /\ result.dayIndex \in 0..8
        /\ \A i \in 0..3 :
              LET start == result.dayIndex + 8 * i
                  samples == {start + j : j \in 0..7}
              IN  /\ \A k \in samples : k < 40
                  /\ result.changeTest[i] = samples
                  /\ result.draw[i] = samples
                  /\ result.detail[i] = samples

\* the next day began at the ninth sample, so the last day read up to the
\* last sample of the arrays
LastDayReadsLastSample ==
    /\ result.fn = "forecastReads"
    /\ result.dayIndex = 8
    /\ 39 \in result.draw[3]
    /\ 39 \in result.changeTest[3]
    /\ 39 \in result.detail[3]

\* C36: a UV cycle that finds WiFi not connected changes no field of
\* uvData; once firstRun is false it draws nothing and commits nothing
\* (when no conditions cycle ran in the iteration, every field of prevVals
\* but the clock strings is as before); and lastUVUpdate takes the time of
\* the attempt all the same.
NoWiFiLeavesUVAlone ==
    [][ cycle'.uv = "nowifi" =>
          /\ uvData' = uvData
          /\ lastUVUpdate' = clock
          /\ ~firstRun' =>
                /\ ~cycle'.uvDrawn
                /\ cycle'.cond = "none" =>
                      /\ CondFields(prevVals') = CondFields(prevVals)
                      /\ prevVals'.lastUV = prevVals.lastUV
                      /\ prevVals'.lastUVTime = prevVals.lastUVTime
                      /\ uvLine' = uvLine
      ]_vars

\* WiFi was down for a UV cycle on its own, with a valid snapshot on
\* display
NoWiFiWithValidSnapshot ==
    /\ cycle.uv = "nowifi"
    /\ cycle.cond = "none"
    /\ ~firstRun
    /\ uvData.valid
    /\ uvLine.number # NoNumber

\* pixel <<px, py>> lies in rectangle r
Covers(r, px, py) ==
    /\ r.x <= px /\ px < r.x + r.w
    /\ r.y <= py /\ py < r.y + r.h

\* C37: for all 16-bit x, y, w, h clearArea fills nothing when
\* x >= screenWidth or y >= screenHeight, and otherwise fills exactly the
\* pixels of the requested rectangle that lie on the screen; no pixel off
\* the screen is ever filled.
ClearAreaStaysOnScreen ==
    result.fn = "clearArea" =>
        LET asked == [x |-> probe.x, y |-> probe.y, w |-> probe.w, h |-> probe.h]
            onScreen(px, py) == px < ProbeScreen.w /\ py < ProbeScreen.h
        IN  /\ (probe.x >= ProbeScreen.w \/ probe.y >= ProbeScreen.h) =>
                  result.filled.w = 0 /\ result.filled.h = 0
            /\ \A px \in 0..(MaxCoord + 2), py \in 0..(MaxCoord + 2) :
                  Covers(result.filled, px, py)
                      <=> Covers(asked, px, py) /\ onScreen(px, py)
            /\ result.filled.x + result.filled.w <= ProbeScreen.w
            /\ result.filled.y + result.filled.h <= ProbeScreen.h

\* a rectangle reaching past the right and bottom edges was cut at both
ClearAreaClippedAtCorner ==
    /\ result.fn = "clearArea"
    /\ probe.x = 2 /\ probe.y = 1 /\ probe.w = 65535 /\ probe.h = 6
    /\ result.filled = [x |-> 2, y |-> 1, w |-> 2, h |-> 2]

\* C38: drawTime redraws and commits lastTimeStr and lastDateStr exactly when
\* the newly formatted time or date text differs from the committed one, and
\* a second drawTime within the same local minute draws nothing and changes
\* nothing.
DrawTimeRedrawsOnChangeOnly ==
    result.fn = "drawTime" =>
        LET fresh == <<timeStrings(probe.lm).timeStr, timeStrings(probe.lm).buf>>
            committed(pv) == <<pv.lastTimeStr, pv.lastDateStr>>
        IN  /\ result.drawn <=> fresh # committed(probe.pv)
            /\ result.drawn => committed(result.pv) = fresh
            /\ ~result.drawn => result.pv = probe.pv
            /\ CondFields(result.pv) = CondFields(probe.pv)
            /\ ~result.drawnAgain
            /\ result.pvAgain = result.pv

\* the same clock time one day later: only the date line differs, and the
\* time was redrawn and committed
SameTimeNextDayRedrawn ==
    /\ result.fn = "drawTime"
    /\ probe.pv.lastTimeStr = <<"0", "9", ":", "0", "1">>
    /\ probe.lm = 1440 + 9 * 60 + 1
    /\ result.drawn
    /\ result.pv.lastTimeStr = probe.pv.lastTimeStr
    /\ result.pv.lastDateStr # probe.pv.lastDateStr
    /\ ~result.drawnAgain

\* the 32-bit quantity <<high, low>> exceeds n, 0 <= n < 2^31
Exceeds(e, n) ==
    e[1] >= 32768 \/ e[1] * 65536 + e[2] > n

\* C39: with millis() - lastDownloadUpdate > 900000 and
\* millis() - lastUVUpdate > 1800000 evaluated modulo 2^32, a fetch is due
\* exactly when the true elapsed time since the stamp (less than 2^32 ms)
\* exceeds the interval, before and after the millisecond counter wraps.
CadenceSurvivesWraparound ==
    result.fn = "cadence" =>
        ( result.due <=>
            Exceeds(probe.gone,
                    IF probe.test = "conditions" THEN 900000 ELSE 1800000) )

\* the counter wrapped between the stamp and the test, one millisecond past
\* the conditions interval, and the fetch is due
DueJustAfterWrap ==
    /\ result.fn = "cadence"
    /\ probe.test = "conditions"
    /\ asLong(probe.last) < 0
    /\ result.now[1] = 0
    /\ probe.gone = UL(900001)
    /\ result.due

\* C40: for every UTC time hh:mm and every zone offset from -14 h to +14 h
\* the localized UV max-time label is (hh*60 + mm + offset in minutes)
\* mod 1440 written as HH:MM with 0 <= HH <= 23 and 0 <= MM <= 59, and it
\* fits the 6-byte max_time_str buffer with its terminator.
MaxTimeLabelIsLocalTimeOfDay ==
    result.fn = "maxTimeLabel" =>
        LET localMinute ==
                (probe.hh * 60 + probe.mm + probe.offsetSec \div 60) % 1440
            HH == localMinute \div 60
            MM == localMinute % 60
        IN  /\ HH \in 0..23 /\ MM \in 0..59
            /\ result.max_time_str
                  = <<Digit(HH \div 10), Digit(HH % 10), ":",
                      Digit(MM \div 10), Digit(MM % 10)>>
            /\ Len(result.max_time_str) + 1 <= 6

\* 00:29 UTC at -13:45 is 10:44 on the previous day
LabelWrapsToPreviousDay ==
    /\ result.fn = "maxTimeLabel"
    /\ probe.hh = 0 /\ probe.mm = 29
    /\ probe.offsetSec = -(13 * 3600 + 45 * 60)
    /\ result.max_time_str = <<"1", "0", ":", "4", "4">>

====
